---- MODULE Spec2Model ----
(***************************************************************************)
(* The streaming loaders of scripts/: load_tracking_10fps.py,              *)
(* load_smoothtracking_10fps.py, load_smoothballs_10fps.py and the         *)
(* deduplication helper of load_events_multi.py.                           *)
(*                                                                         *)
(* A JSON value is a pair <<tag, n>>: <<"null", 0>> is null/None,          *)
(* <<"num", n>> the number n and <<"str", 0>> a string that is not a       *)
(* number.  Timestamps are whole milliseconds, on which float() is exact.  *)
(***************************************************************************)
EXTENDS Integers, Sequences, FiniteSets, TLC

VARIABLES
    input,        \* what the files on disk may hold (fixed by Init)
    args,         \* the parsed command line (fixed by Init)
    pc,           \* position of main()
    game_id,      \* game id of the file being processed
    file_no,      \* how many files of `files` the outer loop has taken
    nread,        \* records read from the current file
    last_keep_ms, \* main.last_keep_ms
    frames_buf, players_buf, balls_buf,
    fstage,       \* which table flush() is at; 0 outside flush
    flush_ret,    \* where flush() returns to
    flush_count,
    games_done,
    su,           \* the running safe_upsert call: table, rows, attempt, wait
    sb_ref,       \* sb_ref["sb"]: the id of the client in the holder
    clients_made, \* ids handed out by make_client()
    store,        \* the destination store: table -> set of rows
    err,          \* the exception that left main(), Null0 when none
    hist,         \* observations of the run that the properties read
    dd            \* input and result of a deduplication call

vars == <<input, args, pc, game_id, file_no, nread, last_keep_ms, frames_buf,
          players_buf, balls_buf, fstage, flush_ret, flush_count, games_done,
          su, sb_ref, clients_made, store, err, hist, dd>>

pipe_vars == <<input, args, pc, game_id, file_no, nread, last_keep_ms, frames_buf,
          players_buf, balls_buf, fstage, flush_ret, flush_count, games_done,
          su, sb_ref, clients_made, store, err, hist>>

-----------------------------------------------------------------------------
(* JSON / Python values *)

Null == <<"null", 0>>
Num(n) == <<"num", n>>
Str == <<"str", 0>>
IsNone(v) == v[1] = "null"
IsNum(v) == v[1] = "num"
Val(v) == v[2]

\* r.get(f): the field, or None when the row has no such field
Get(r, f) == IF f \in DOMAIN r THEN r[f] ELSE Null

Min(a, b) == IF a <= b THEN a ELSE b

RECURSIVE Pow2(_)
Pow2(n) == IF n = 0 THEN 1 ELSE 2 * Pow2(n - 1)

-----------------------------------------------------------------------------
(* dedupe_rows / dedup_by_key: a dict keyed by the composite key, filled in *)
(* input order; list(out.values()) is in order of first insertion.          *)

KeyOf(r, key_fields) == [i \in 1..Len(key_fields) |-> Get(r, key_fields[i])]

DictSetMoveToEnd(d, k, r) ==
    Append(SelectSeq(d, LAMBDA e : e.k # k), [k |-> k, v |-> r])

DictSetFirst(d, k, r) ==
    IF \E i \in DOMAIN d : d[i].k = k
    THEN d
    ELSE Append(d, [k |-> k, v |-> r])

\* out[k] = r
DictSet(d, k, r) ==
    IF \E i \in DOMAIN d : d[i].k = k
    THEN [i \in DOMAIN d |-> IF d[i].k = k THEN [k |-> k, v |-> r] ELSE d[i]]
    ELSE Append(d, [k |-> k, v |-> r])

RECURSIVE DedupeLoop(_, _, _)
DedupeLoop(rows, key_fields, out) ==
    IF rows = <<>> THEN out
    ELSE DedupeLoop(Tail(rows), key_fields,
                    DictSet(out, KeyOf(Head(rows), key_fields), Head(rows)))

DictValues(d) == [i \in DOMAIN d |-> d[i].v]

dedupe_rows(rows, key_fields) == DictValues(DedupeLoop(rows, key_fields, <<>>))

\* load_events_multi.py: the key is computed by a function of the row
RECURSIVE DedupLoopFn(_, _, _)
DedupLoopFn(rows, key_fn, d) ==
    IF rows = <<>> THEN d
    ELSE DedupLoopFn(Tail(rows), key_fn, DictSet(d, key_fn[Head(rows)], Head(rows)))

dedup_by_key(rows, key_fn) == DictValues(DedupLoopFn(rows, key_fn, <<>>))

-----------------------------------------------------------------------------
(* Exceptions.  repr(exc) is a sequence of words; `k in s` is containment   *)
(* of the keyword's words as a contiguous run.                              *)

TRANSIENT_KEYWORDS ==
    { <<"ConnectionTerminated">>, <<"RemoteProtocolError">>, <<"ReadTimeout">>,
      <<"WriteTimeout">>, <<"ConnectTimeout">>, <<"Server", "disconnected">>,
      <<"502">>, <<"503">>, <<"504">> }

Contains(s, k) ==
    \E i \in 0..(Len(s) - Len(k)) : SubSeq(s, i + 1, i + Len(k)) = k

NoErr == [kind |-> "none", repr |-> <<>>]

\* What a store call can raise: `kind` is what went wrong, `repr` its text.
StoreErrors ==
    { [kind |-> "connection", repr |-> <<"RemoteProtocolError", "Server", "disconnected">>],
      [kind |-> "timeout",    repr |-> <<"ReadTimeout">>],
      [kind |-> "5xx",        repr |-> <<"APIError", "503">>],
      [kind |-> "connection", repr |-> <<"ConnectError", "refused">>],
      [kind |-> "constraint", repr |-> <<"APIError", "21000", "row", "a", "second", "time">>],
      [kind |-> "constraint", repr |-> <<"APIError", "23503", "Key", "frame_num", "503">>],
      [kind |-> "payload",    repr |-> <<"APIError", "PGRST102", "invalid", "body">>] }

ValueError == [kind |-> "value", repr |-> <<"ValueError">>]

TransientKinds == {"connection", "timeout", "5xx"}

is_transient_by_kind(exc) == exc.kind \in TransientKinds

is_transient(exc) == \E k \in TRANSIENT_KEYWORDS : Contains(exc.repr, k)

-----------------------------------------------------------------------------
(* safe_upsert's constants and backoff; delays are in milliseconds *)

max_retries == 8

MaxDelayMs == 60000

\* random.random() in [0, 1): the jitter, in ms
Jitters == {0, 999}

BackoffBaseUncapped(attempt) == Pow2(attempt) * 1000

\* min(60.0, 2 ** attempt)
BackoffBase(attempt) == Min(MaxDelayMs, Pow2(attempt) * 1000)

GivesUpNever(exc, attempt) == FALSE

GivesUpOnLastOnly(exc, attempt) == attempt = max_retries - 1

GivesUpOnPermanentOnly(exc, attempt) == ~is_transient(exc)

\* the failing attempt is the last one safe_upsert makes:
\* (not is_transient(e)) or attempt == max_retries - 1
GivesUp(exc, attempt) == (~is_transient(exc)) \/ attempt = max_retries - 1

-----------------------------------------------------------------------------
(* Row builders.  A raw record obj has the fields                           *)
(*   videoTimeMs, frameNum : JSON values                                     *)
(*   balls, ballsSmoothed, homePlayers, awayPlayers,                         *)
(*   homePlayersSmoothed, awayPlayersSmoothed : [shape, items]               *)
(* with shape "null", "dict", "list" or "other" (any other JSON value) and   *)
(* items the elements (the one dict itself for shape "dict").  A builder     *)
(* gives [raises, rows]: raises when int()/float() meets a non-number.       *)

Home == <<"str", 1>>
Away == <<"str", 2>>

NoItems == [shape |-> "null", items |-> <<>>]

FrameKey == <<"game_id", "frame_num">>
PlayerKey == <<"game_id", "frame_num", "side", "jersey_num">>
BallKey == <<"game_id", "frame_num", "ball_idx">>

\* load_smoothballs_10fps.build_frame, load_smoothtracking_10fps.build_frame:
\* None (no row) when frameNum is missing
build_frame(obj, gid) ==
    IF IsNone(obj.frameNum) THEN [raises |-> FALSE, rows |-> <<>>]
    ELSE IF ~IsNum(obj.frameNum) THEN [raises |-> TRUE, rows |-> <<>>]
    ELSE [raises |-> FALSE,
          rows |-> << [game_id |-> Num(gid), frame_num |-> obj.frameNum,
                       video_time_ms |-> obj.videoTimeMs] >>]

\* load_tracking_10fps.build_frame: always a row, frame_num None when missing
build_frame_tracking(obj, gid) ==
    IF (~IsNone(obj.frameNum)) /\ ~IsNum(obj.frameNum)
    THEN [raises |-> TRUE, rows |-> <<>>]
    ELSE [raises |-> FALSE,
          rows |-> << [game_id |-> Num(gid), frame_num |-> obj.frameNum,
                       video_time_ms |-> obj.videoTimeMs] >>]

BallRow(gid, fn, idx, b) ==
    [game_id |-> Num(gid), frame_num |-> fn, ball_idx |-> Num(idx), x |-> b.x, y |-> b.y]

\* load_smoothballs_10fps.build_balls_smoothed: which elements give a row
BallKept(b) == b.isdict /\ ~IsNone(b.x) /\ ~IsNone(b.y)

RECURSIVE BallsSmoothedFrom(_, _, _, _)
BallsSmoothedFrom(items, i, gid, fn) ==
    IF i > Len(items) THEN <<>>
    ELSE (IF BallKept(items[i]) THEN <<BallRow(gid, fn, i - 1, items[i])>> ELSE <<>>)
         \o BallsSmoothedFrom(items, i + 1, gid, fn)

build_balls_smoothed(obj, gid) ==
    LET bs == obj.ballsSmoothed
        balls == IF bs.shape \in {"dict", "list"} THEN bs.items ELSE <<>>
    IN  IF bs.shape = "other" \/ IsNone(obj.frameNum)
        THEN [raises |-> FALSE, rows |-> <<>>]
        ELSE IF (~IsNum(obj.frameNum))
                \/ \E i \in DOMAIN balls :
                      BallKept(balls[i]) /\ (~IsNum(balls[i].x) \/ ~IsNum(balls[i].y))
        THEN [raises |-> TRUE, rows |-> <<>>]
        ELSE [raises |-> FALSE, rows |-> BallsSmoothedFrom(balls, 1, gid, obj.frameNum)]

\* load_tracking_10fps.build_balls: x, y are copied as they are
RECURSIVE BallsFrom(_, _, _, _)
BallsFrom(items, i, gid, fn) ==
    IF i > Len(items) THEN <<>>
    ELSE (IF items[i].isdict THEN <<BallRow(gid, fn, i - 1, items[i])>> ELSE <<>>)
         \o BallsFrom(items, i + 1, gid, fn)

build_balls(obj, gid, smoothed) ==
    LET c == IF smoothed THEN obj.ballsSmoothed ELSE obj.balls
    IN  IF c.shape # "list" THEN [raises |-> FALSE, rows |-> <<>>]
        ELSE IF (~IsNone(obj.frameNum)) /\ ~IsNum(obj.frameNum)
        THEN [raises |-> TRUE, rows |-> <<>>]
        ELSE [raises |-> FALSE, rows |-> BallsFrom(c.items, 1, gid, obj.frameNum)]

\* int(jersey) inside try/except: None when missing or not a number
JerseyNum(p) == IF IsNum(p.jerseyNum) THEN p.jerseyNum ELSE Null

PlayerRow(gid, fn, side, p) ==
    [game_id |-> Num(gid), frame_num |-> fn, side |-> side,
     jersey_num |-> JerseyNum(p), x |-> p.x]

PlayerKept(p) == p.isdict /\ ~IsNone(JerseyNum(p))

RECURSIVE PlayersFrom(_, _, _, _)
PlayersFrom(items, gid, fn, side) ==
    IF items = <<>> THEN <<>>
    ELSE (IF PlayerKept(Head(items)) THEN <<PlayerRow(gid, fn, side, Head(items))>> ELSE <<>>)
         \o PlayersFrom(Tail(items), gid, fn, side)

PlayersOf(c, obj, gid, side) ==
    IF c.shape # "list" \/ IsNone(obj.frameNum)
    THEN [raises |-> FALSE, rows |-> <<>>]
    ELSE IF ~IsNum(obj.frameNum) THEN [raises |-> TRUE, rows |-> <<>>]
    ELSE [raises |-> FALSE, rows |-> PlayersFrom(c.items, gid, obj.frameNum, side)]

\* load_smoothtracking_10fps.build_players_smoothed
build_players_smoothed(obj, gid, side) ==
    PlayersOf(IF side = Home THEN obj.homePlayersSmoothed ELSE obj.awayPlayersSmoothed,
              obj, gid, side)

\* load_tracking_10fps calls build_players(obj, game_id, side, smoothed=...),
\* which no file of scripts/ defines: a row builder as the pipeline's
\* contract describes it, one row per player of the side, never raising.
build_players(obj, gid, side, smoothed) ==
    LET c == IF smoothed
             THEN (IF side = Home THEN obj.homePlayersSmoothed ELSE obj.awayPlayersSmoothed)
             ELSE (IF side = Home THEN obj.homePlayers ELSE obj.awayPlayers)
    IN  [raises |-> FALSE,
         rows |-> IF c.shape # "list" \/ ~IsNum(obj.frameNum) THEN <<>>
                  ELSE PlayersFrom(c.items, gid, obj.frameNum, side)]

-----------------------------------------------------------------------------
(* The destination store: insert-or-overwrite by the table's primary key.   *)

Tables(loader) ==
    CASE loader = "smoothballs" ->
            <<"tracking_frames", "tracking_ball_positions_smoothed">>
      [] loader = "smoothtracking" ->
            <<"tracking_frames", "tracking_player_positions_smoothed">>
      [] loader = "tracking" ->
            <<"tracking_frames", "tracking_player_positions", "tracking_ball_positions">>

AllTables ==
    {"tracking_frames", "tracking_ball_positions_smoothed",
     "tracking_player_positions_smoothed", "tracking_player_positions",
     "tracking_ball_positions"}

PrimaryKey(table) ==
    CASE table = "tracking_frames" -> FrameKey
      [] table \in {"tracking_player_positions_smoothed", "tracking_player_positions"} ->
            PlayerKey
      [] OTHER -> BallKey

Range(seq) == {seq[i] : i \in DOMAIN seq}

KeysOf(rows, key_fields) == {KeyOf(rows[i], key_fields) : i \in DOMAIN rows}

HasDuplicateKey(rows, key_fields) ==
    \E i, j \in DOMAIN rows : i < j /\ KeyOf(rows[i], key_fields) = KeyOf(rows[j], key_fields)

UpsertKeepsStored(content, rows, key_fields) ==
    { content \cup {rows[i] : i \in {j \in DOMAIN rows :
                      KeyOf(rows[j], key_fields) \notin KeysOf(SubSeq(rows, 1, j - 1),
                                                               key_fields)
                      /\ \A r \in content :
                            KeyOf(r, key_fields) # KeyOf(rows[j], key_fields)}} }

\* The contents a table may have after an upsert of `rows`: every key of the
\* call holds one of the call's rows with that key, the other rows stay.
UpsertResults(content, rows, key_fields) ==
    LET kept == {r \in content : KeyOf(r, key_fields) \notin KeysOf(rows, key_fields)}
    IN  { kept \cup w : w \in
            { w \in SUBSET Range(rows) :
                /\ \A r1, r2 \in w : KeyOf(r1, key_fields) = KeyOf(r2, key_fields) => r1 = r2
                /\ \A k \in KeysOf(rows, key_fields) :
                      \E r \in w : KeyOf(r, key_fields) = k } }

InsertRows(content, rows, key_fields) == content \cup Range(rows)

\* the store as a map from key to row: the rows of an upsert are applied one
\* after the other, each inserting or overwriting the row of its key
UpsertInOrder(content, rows, key_fields) ==
    {r \in content : KeyOf(r, key_fields) \notin KeysOf(rows, key_fields)}
       \cup {rows[i] : i \in {j \in DOMAIN rows :
                   \A l \in DOMAIN rows :
                       KeyOf(rows[l], key_fields) = KeyOf(rows[j], key_fields) => l <= j}}

\* count_rows: select(count="exact").eq("game_id", game_id)
count_rows(content, gid) == Cardinality({r \in content : r.game_id = Num(gid)})

\* PostgreSQL refuses an upsert that names one key twice (error 21000)
DuplicateKeyError ==
    [kind |-> "constraint", repr |-> <<"APIError", "21000", "row", "a", "second", "time">>]

JSONDecodeError == [kind |-> "parse", repr |-> <<"JSONDecodeError">>]

-----------------------------------------------------------------------------
(* main(): the time filter and the buffers *)

\* last_keep_ms at the start of a file
StaleLastKeep(prev) == prev

LastKeepAtFileStart(prev) == Null

TimeFilterPrevRaw(last, t, min_dt_ms) == TRUE

LastKeepAfterAppend(last, t, frames) == IF frames = <<>> THEN last ELSE t

\* last_keep_ms = t, the statement before build_frame is called
LastKeepAfter(last, t, frames) == t

TimeFilterStrict(last, t, min_dt_ms) ==
    ~(IsNum(last) /\ (Val(t) - Val(last)) <= min_dt_ms)

\* not (last_keep_ms is not None and (t - last_keep_ms) < args.min_dt_ms)
TimeFilterPasses(last, t, min_dt_ms) ==
    ~(IsNum(last) /\ (Val(t) - Val(last)) < min_dt_ms)

FrameThreshold(a) == IF a.loader = "tracking" THEN a.batch ELSE a.batch_frames
PlayerThreshold(a) == IF a.loader = "tracking" THEN a.batch * 22 ELSE a.batch_players
BallThreshold(a) == IF a.loader = "tracking" THEN a.batch * 4 ELSE a.batch_balls

ThresholdExceeded(a, fb, pb, bb) ==
    \/ Len(fb) > FrameThreshold(a)
    \/ Len(pb) > PlayerThreshold(a)
    \/ Len(bb) > BallThreshold(a)

ThresholdFramesOnly(a, fb, pb, bb) == Len(fb) >= FrameThreshold(a)

\* the condition under which the read loop calls flush()
ThresholdReached(a, fb, pb, bb) ==
    CASE a.loader = "smoothballs" ->
            Len(fb) >= FrameThreshold(a) \/ Len(bb) >= BallThreshold(a)
      [] a.loader = "smoothtracking" ->
            Len(fb) >= FrameThreshold(a) \/ Len(pb) >= PlayerThreshold(a)
      [] OTHER ->
            Len(fb) >= FrameThreshold(a) \/ Len(pb) >= PlayerThreshold(a)
               \/ Len(bb) >= BallThreshold(a)

\* What one kept record adds to the buffers: [raises, frames, players, balls];
\* frames is empty when the record is skipped for its missing frameNum.
BuildRows(a, obj, gid) ==
    LET none == [raises |-> FALSE, rows |-> <<>>]
        fr == IF a.loader = "tracking" THEN build_frame_tracking(obj, gid)
              ELSE build_frame(obj, gid)
        skip == fr.raises \/ fr.rows = <<>> \/ IsNone(fr.rows[1].frame_num)
        ph == CASE a.loader = "smoothtracking" -> build_players_smoothed(obj, gid, Home)
                [] a.loader = "tracking" -> build_players(obj, gid, Home, FALSE)
                [] OTHER -> none
        pa == CASE a.loader = "smoothtracking" -> build_players_smoothed(obj, gid, Away)
                [] a.loader = "tracking" -> build_players(obj, gid, Away, FALSE)
                [] OTHER -> none
        phs == IF a.loader = "tracking" /\ ~a.no_smoothed
               THEN build_players(obj, gid, Home, TRUE) ELSE none
        pas == IF a.loader = "tracking" /\ ~a.no_smoothed
               THEN build_players(obj, gid, Away, TRUE) ELSE none
        b == CASE a.loader = "smoothballs" -> build_balls_smoothed(obj, gid)
               [] a.loader = "tracking" -> build_balls(obj, gid, FALSE)
               [] OTHER -> none
        bs == IF a.loader = "tracking" /\ ~a.no_smoothed
              THEN build_balls(obj, gid, TRUE) ELSE none
    IN  IF skip
        THEN [raises |-> fr.raises, frames |-> <<>>, players |-> <<>>, balls |-> <<>>]
        ELSE [raises |-> ph.raises \/ pa.raises \/ phs.raises \/ pas.raises
                            \/ b.raises \/ bs.raises,
              frames |-> fr.rows,
              players |-> ph.rows \o pa.rows \o phs.rows \o pas.rows,
              balls |-> b.rows \o bs.rows]

-----------------------------------------------------------------------------
(* State *)

SuIdle ==
    [table |-> "", rows |-> <<>>, attempt |-> 0, wait |-> 0, exc |-> NoErr,
     calls |-> 0, applied |-> 0, client |-> 0, status |-> "idle"]

EmptyStore == [t \in AllTables |-> {}]

HistInit ==
    [seen_ts |-> <<>>,    \* videoTimeMs of the records read from this file
     kept_ts |-> <<>>,    \* timestamps that passed the time filter, this file
     app_ts |-> <<>>,     \* video_time_ms of the frame rows appended, this file
     faults |-> 0,        \* store calls and queries that raised
     retried |-> 0,       \* failed store calls that were retried
     used |-> 0,          \* client of the most recent store call or query
     verified |-> <<>>,   \* [game_id, frames, positions] of the last verification
     run |-> "first",     \* which run of the program over the input this is
     once |-> EmptyStore] \* the store as the first complete run left it

PipeInit(in, a) ==
    /\ input = in
    /\ args = a
    /\ pc = "files"
    /\ game_id = 0
    /\ file_no = 0
    /\ nread = 0
    /\ last_keep_ms = Null
    /\ frames_buf = <<>>
    /\ players_buf = <<>>
    /\ balls_buf = <<>>
    /\ fstage = 0
    /\ flush_ret = "read"
    /\ flush_count = 0
    /\ games_done = 0
    /\ su = SuIdle
    /\ sb_ref = 1
    /\ clients_made = 1
    /\ store = EmptyStore
    /\ err = NoErr
    /\ hist = HistInit

DdIdle == [rows |-> <<>>, key |-> <<>>, out |-> <<>>, out_fn |-> <<>>, done |-> FALSE]

-----------------------------------------------------------------------------
(* main(): the loop over the files *)

Raise(e) ==
    /\ pc' = "raised"
    /\ err' = e

\* for fp in files: the next file, its game id guessed from its name
NextFile(g) ==
    /\ pc = "files"
    /\ file_no < input.max_files
    /\ IsNone(args.only_game) \/ g = args.only_game
    /\ file_no' = file_no + 1
    /\ IF IsNone(g)
       THEN UNCHANGED <<pc, game_id, last_keep_ms, hist>>
       ELSE /\ pc' = "read"
            /\ game_id' = Val(g)
            /\ last_keep_ms' = LastKeepAtFileStart(last_keep_ms)
            /\ hist' = [hist EXCEPT !.seen_ts = <<>>, !.kept_ts = <<>>, !.app_ts = <<>>]
    /\ UNCHANGED <<input, args, nread, frames_buf, players_buf, balls_buf, fstage,
                   flush_ret, flush_count, games_done, su, sb_ref, clients_made,
                   store, err, dd>>

\* the loop over the files ends: "All done."
AllDone ==
    /\ pc = "files"
    /\ pc' = "done"
    /\ UNCHANGED <<input, args, game_id, file_no, nread, last_keep_ms, frames_buf,
                   players_buf, balls_buf, fstage, flush_ret, flush_count, games_done,
                   su, sb_ref, clients_made, store, err, hist, dd>>

\* flush() is called: it starts at its first table
CallFlush(ret) ==
    /\ pc' = "flush"
    /\ fstage' = 1
    /\ flush_ret' = ret
    /\ flush_count' = IF args.loader = "smoothballs" THEN flush_count + 1 ELSE flush_count

\* one iteration of `for obj in iter_jsonl_bz2(fp)`
ReadRecord(obj) ==
    /\ pc = "read"
    /\ nread < input.max_recs
    /\ nread' = nread + 1
    /\ LET t == obj.videoTimeMs
           seen == [hist EXCEPT !.seen_ts = Append(@, t)]
           b == BuildRows(args, obj, game_id)
           fb == frames_buf \o b.frames
           pb == players_buf \o b.players
           bb == balls_buf \o b.balls
       IN  IF IsNone(t)
           THEN /\ hist' = seen
                /\ UNCHANGED <<pc, err, last_keep_ms, frames_buf, players_buf, balls_buf,
                               fstage, flush_ret, flush_count>>
           ELSE IF ~IsNum(t)
           THEN /\ Raise(ValueError)
                /\ hist' = seen
                /\ UNCHANGED <<last_keep_ms, frames_buf, players_buf, balls_buf,
                               fstage, flush_ret, flush_count>>
           ELSE IF ~TimeFilterPasses(last_keep_ms, t, args.min_dt_ms)
           THEN /\ hist' = seen
                /\ UNCHANGED <<pc, err, last_keep_ms, frames_buf, players_buf, balls_buf,
                               fstage, flush_ret, flush_count>>
           ELSE /\ last_keep_ms' = LastKeepAfter(last_keep_ms, t, b.frames)
                /\ IF b.raises
                   THEN /\ Raise(ValueError)
                        /\ hist' = [seen EXCEPT !.kept_ts = Append(@, t)]
                        /\ frames_buf' = fb
                        /\ UNCHANGED <<players_buf, balls_buf, fstage, flush_ret,
                                       flush_count>>
                   ELSE /\ hist' = [seen EXCEPT
                                      !.kept_ts = Append(@, t),
                                      !.app_ts = IF b.frames = <<>> THEN @
                                                 ELSE Append(@, b.frames[1].video_time_ms)]
                        /\ frames_buf' = fb
                        /\ players_buf' = pb
                        /\ balls_buf' = bb
                        /\ err' = err
                        /\ IF b.frames # <<>> /\ ThresholdReached(args, fb, pb, bb)
                           THEN CallFlush("read")
                           ELSE UNCHANGED <<pc, fstage, flush_ret, flush_count>>
    /\ UNCHANGED <<input, args, game_id, file_no, games_done, su, sb_ref,
                   clients_made, store, dd>>

\* json.loads raises on a line that is not JSON
ReadBadLine ==
    /\ pc = "read"
    /\ nread < input.max_recs
    /\ input.bad_lines
    /\ nread' = nread + 1
    /\ Raise(JSONDecodeError)
    /\ UNCHANGED <<input, args, game_id, file_no, last_keep_ms, frames_buf,
                   players_buf, balls_buf, fstage, flush_ret, flush_count, games_done,
                   su, sb_ref, clients_made, store, hist, dd>>

AfterFilePcVerifyOnly(a) == IF a.verify THEN "verify" ELSE "counted"

\* what follows the file's "Done" line: verification, when asked for
AfterFilePc(a) == IF a.verify /\ ~a.dry_run THEN "verify" ELSE "counted"

FlushesOnlyWhenFull(a, fb, pb, bb) == ThresholdReached(a, fb, pb, bb)

\* whether flush() is called once the file is exhausted: always in
\* load_tracking_10fps.py, when a buffer holds rows in the two others
FlushesAtEndOfFile(a, fb, pb, bb) ==
    \/ a.loader = "tracking"
    \/ fb # <<>>
    \/ (a.loader = "smoothballs" /\ bb # <<>>)
    \/ (a.loader = "smoothtracking" /\ pb # <<>>)

\* the file is exhausted: the flush at the end of the file
EndOfFile ==
    /\ pc = "read"
    /\ IF FlushesAtEndOfFile(args, frames_buf, players_buf, balls_buf)
       THEN CallFlush(AfterFilePc(args))
       ELSE /\ pc' = AfterFilePc(args)
            /\ UNCHANGED <<fstage, flush_ret, flush_count>>
    /\ UNCHANGED <<input, args, game_id, file_no, nread, last_keep_ms, frames_buf,
                   players_buf, balls_buf, games_done, su, sb_ref, clients_made,
                   store, err, hist, dd>>

-----------------------------------------------------------------------------
(* flush(): one table after the other, then the buffers are emptied *)

HasJersey(r) == ~IsNone(Get(r, "jersey_num"))

FlushKey(k) == IF k = 1 THEN FrameKey ELSE IF k = 2 THEN PlayerKey ELSE BallKey

\* which buffer flush() writes at its k-th table: 1 frames, 2 players, 3 balls
BufferNo(a, stage) == IF a.loader = "smoothballs" /\ stage = 2 THEN 3 ELSE stage

FlushRowsNoDedupe(a, k, buf) == buf

FlushRowsHeadOnly(a, k, buf) == SubSeq(buf, 1, 1)

\* the rows flush() hands to safe_upsert for buffer k
FlushRows(a, k, buf) ==
    CASE a.loader = "tracking" -> buf
      [] a.loader = "smoothtracking" /\ k = 2 ->
            dedupe_rows(SelectSeq(buf, HasJersey), PlayerKey)
      [] OTHER -> dedupe_rows(buf, FlushKey(k))

FlushOrderPositionsFirst(a) ==
    [i \in 1..Len(Tables(a.loader)) |-> Len(Tables(a.loader)) + 1 - i]

\* the order in which flush() takes its tables: frames, then the positions
FlushOrder(a) == [i \in 1..Len(Tables(a.loader)) |-> i]

\* flush() reaches its next table: safe_upsert is called when there are rows
FlushTable ==
    /\ pc = "flush"
    /\ fstage \in 1..Len(Tables(args.loader))
    /\ LET k == BufferNo(args, FlushOrder(args)[fstage])
           buf == IF k = 1 THEN frames_buf ELSE IF k = 2 THEN players_buf ELSE balls_buf
           rows == IF buf = <<>> THEN <<>> ELSE FlushRows(args, k, buf)
       IN  /\ IF args.loader = "smoothtracking"
              THEN /\ frames_buf' = IF k = 1 THEN rows ELSE frames_buf
                   /\ players_buf' = IF k = 2 THEN rows ELSE players_buf
              ELSE UNCHANGED <<frames_buf, players_buf>>
           /\ IF args.dry_run \/ rows = <<>>
              THEN /\ fstage' = fstage + 1
                   /\ UNCHANGED <<pc, su>>
              ELSE /\ pc' = "upsert"
                   /\ su' = [SuIdle EXCEPT !.table =
                                                Tables(args.loader)[FlushOrder(args)[fstage]],
                                           !.rows = rows, !.status = "calling"]
                   /\ UNCHANGED fstage
    /\ UNCHANGED <<input, args, game_id, file_no, nread, last_keep_ms, balls_buf,
                   flush_ret, flush_count, games_done, sb_ref, clients_made, store,
                   err, hist, dd>>

BufferThreshold(a, k) ==
    IF k = 1 THEN FrameThreshold(a) ELSE IF k = 2 THEN PlayerThreshold(a)
    ELSE BallThreshold(a)

ClearOnlyFull(a, k, buf) == IF Len(buf) >= BufferThreshold(a, k) THEN <<>> ELSE buf

\* what flush() leaves in buffer k
AfterFlush(a, k, buf) == <<>>

\* frames_buf = []; players_buf = []; balls_buf = []: flush() returns
FlushClear ==
    /\ pc = "flush"
    /\ fstage = Len(Tables(args.loader)) + 1
    /\ frames_buf' = AfterFlush(args, 1, frames_buf)
    /\ players_buf' = AfterFlush(args, 2, players_buf)
    /\ balls_buf' = AfterFlush(args, 3, balls_buf)
    /\ fstage' = 0
    /\ su' = SuIdle
    /\ pc' = flush_ret
    /\ UNCHANGED <<input, args, game_id, file_no, nread, last_keep_ms, flush_ret,
                   flush_count, games_done, sb_ref, clients_made, store, err, hist, dd>>

-----------------------------------------------------------------------------
(* safe_upsert(): the store call, and the retry after a transient failure *)

\* sb_ref["sb"].table(table).upsert(rows).execute() completes
StoreCallReturns ==
    /\ pc = "upsert"
    /\ \E content \in (IF input.in_order
                        THEN {UpsertInOrder(store[su.table], su.rows, PrimaryKey(su.table))}
                        ELSE UpsertResults(store[su.table], su.rows, PrimaryKey(su.table))) :
          store' = [store EXCEPT ![su.table] = content]
    /\ su' = [su EXCEPT !.calls = @ + 1, !.applied = @ + 1, !.client = sb_ref,
                        !.exc = NoErr, !.wait = 0, !.status = "returned"]
    /\ hist' = [hist EXCEPT !.used = sb_ref]
    /\ pc' = "flush"
    /\ fstage' = fstage + 1
    /\ UNCHANGED <<input, args, game_id, file_no, nread, last_keep_ms, frames_buf,
                   players_buf, balls_buf, flush_ret, flush_count, games_done, sb_ref,
                   clients_made, err, dd>>

\* the store call raises e: safe_upsert re-raises, or prepares the retry
StoreCallRaises(e) ==
    /\ pc = "upsert"
    /\ \/ e \in input.errors /\ hist.faults < input.max_faults
       \/ /\ e = DuplicateKeyError
          /\ ~input.in_order
          /\ HasDuplicateKey(su.rows, PrimaryKey(su.table))
    /\ hist' = [hist EXCEPT !.used = sb_ref, !.faults = @ + 1,
                            !.retried = IF GivesUp(e, su.attempt) THEN @ ELSE @ + 1]
    /\ IF GivesUp(e, su.attempt)
       THEN /\ Raise(e)
            /\ su' = [su EXCEPT !.calls = @ + 1, !.client = sb_ref, !.exc = e,
                                !.wait = 0, !.status = "raised"]
       ELSE /\ \E jitter \in Jitters :
                 su' = [su EXCEPT !.calls = @ + 1, !.client = sb_ref, !.exc = e,
                                  !.wait = BackoffBase(su.attempt) + jitter]
            /\ pc' = "recreate"
            /\ err' = err
    /\ UNCHANGED <<input, args, game_id, file_no, nread, last_keep_ms, frames_buf,
                   players_buf, balls_buf, fstage, flush_ret, flush_count, games_done,
                   sb_ref, clients_made, store, dd>>

KeepClient(old, fresh) == old

\* sb_ref["sb"] = make_client()
ClientAfterFailure(old, fresh) == fresh

RecreateClient ==
    /\ pc = "recreate"
    /\ clients_made' = clients_made + 1
    /\ sb_ref' = ClientAfterFailure(sb_ref, clients_made + 1)
    /\ pc' = "sleep"
    /\ UNCHANGED <<input, args, game_id, file_no, nread, last_keep_ms, frames_buf,
                   players_buf, balls_buf, fstage, flush_ret, flush_count, games_done,
                   su, store, err, hist, dd>>

\* time.sleep(wait), then the next attempt of the loop
Sleep ==
    /\ pc = "sleep"
    /\ su' = [su EXCEPT !.attempt = @ + 1, !.wait = 0, !.exc = NoErr]
    /\ pc' = "upsert"
    /\ UNCHANGED <<input, args, game_id, file_no, nread, last_keep_ms, frames_buf,
                   players_buf, balls_buf, fstage, flush_ret, flush_count, games_done,
                   sb_ref, clients_made, store, err, hist, dd>>

-----------------------------------------------------------------------------
(* after a file: verification and the count of games *)

\* games_done += 1, and the stop at --max-games
CountGame ==
    /\ games_done' = IF args.loader = "smoothballs" THEN games_done + 1 ELSE games_done
    /\ pc' = IF args.loader = "smoothballs" /\ ~IsNone(args.max_games)
                /\ games_done + 1 >= Val(args.max_games)
             THEN "done" ELSE "files"

AfterVerifyStrict(fr_ct, kept_frames) ==
    IF fr_ct = kept_frames THEN "counted" ELSE "raised"

\* the counts are printed and compared with nothing
AfterVerify(fr_ct, kept_frames) == "counted"

\* the two count_rows queries return
VerifyCounts ==
    /\ pc = "verify"
    /\ hist' = [hist EXCEPT
                  !.used = sb_ref,
                  !.verified = <<game_id, count_rows(store["tracking_frames"], game_id),
                                 count_rows(store["tracking_ball_positions_smoothed"],
                                            game_id)>>]
    /\ pc' = AfterVerify(count_rows(store["tracking_frames"], game_id), Len(hist.app_ts))
    /\ UNCHANGED <<input, args, game_id, file_no, nread, last_keep_ms, frames_buf,
                   players_buf, balls_buf, fstage, flush_ret, flush_count, games_done,
                   su, sb_ref, clients_made, store, err, dd>>

\* a count_rows query raises: nothing catches it
VerifyRaises(e) ==
    /\ pc = "verify"
    /\ e \in input.errors
    /\ hist.faults < input.max_faults
    /\ hist' = [hist EXCEPT !.used = sb_ref, !.faults = @ + 1]
    /\ Raise(e)
    /\ UNCHANGED <<input, args, game_id, file_no, nread, last_keep_ms, frames_buf,
                   players_buf, balls_buf, fstage, flush_ret, flush_count, games_done,
                   su, sb_ref, clients_made, store, dd>>

FileCounted ==
    /\ pc = "counted"
    /\ CountGame
    /\ UNCHANGED <<input, args, game_id, file_no, nread, last_keep_ms, frames_buf,
                   players_buf, balls_buf, fstage, flush_ret, flush_count, su, sb_ref,
                   clients_made, store, err, hist, dd>>

-----------------------------------------------------------------------------
(* Inputs and command lines of the checked runs *)

MaxRecs == 2
MaxFiles == 2
MaxFaults == 1
BatchFrames == 2
BatchPlayers == 3
BatchBalls == 3

Ball(x, y) == [isdict |-> TRUE, x |-> x, y |-> y]
NotADict == [isdict |-> FALSE, x |-> Null, y |-> Null]
Player(j, x) == [isdict |-> TRUE, jerseyNum |-> j, x |-> x]
List(items) == [shape |-> "list", items |-> items]
Dict(item) == [shape |-> "dict", items |-> <<item>>]

Obj(t, fn, b, bs, hp, hps) ==
    [videoTimeMs |-> t, frameNum |-> fn, balls |-> b, ballsSmoothed |-> bs,
     homePlayers |-> hp, awayPlayers |-> NoItems,
     homePlayersSmoothed |-> hps, awayPlayersSmoothed |-> NoItems]

\* the records a file of the loader may hold: every time and frame number,
\* without positions and with positions
ObjsOf(loader, times, frames, positions) ==
    CASE loader = "smoothballs" ->
            { Obj(t, fn, NoItems, bs, NoItems, NoItems) :
                t \in times, fn \in frames,
                bs \in {NoItems, List(<<Ball(Num(1), Num(1)), Ball(Null, Num(1))>>)}
                          \cap positions }
      [] loader = "smoothtracking" ->
            { Obj(t, fn, NoItems, NoItems, NoItems, hps) :
                t \in times, fn \in frames,
                hps \in {NoItems, List(<<Player(Num(7), Num(1)), Player(Num(7), Num(2))>>)}
                           \cap positions }
      [] OTHER ->
            { Obj(t, fn, b, b, NoItems, NoItems) :
                t \in times, fn \in frames,
                b \in {NoItems, List(<<Ball(Num(1), Num(1))>>)} \cap positions }

AnyPositions ==
    { NoItems, List(<<Ball(Num(1), Num(1)), Ball(Null, Num(1))>>),
      List(<<Player(Num(7), Num(1)), Player(Num(7), Num(2))>>),
      List(<<Ball(Num(1), Num(1))>>) }

\* the command lines: --no-smoothed, --dry-run and --verify where the loader
\* has the option
ArgsOf(loader) ==
    { [loader |-> loader, min_dt_ms |-> 100, batch |-> BatchFrames,
       batch_frames |-> BatchFrames, batch_players |-> BatchPlayers,
       batch_balls |-> BatchBalls, no_smoothed |-> ns, dry_run |-> dv[1],
       verify |-> dv[2], max_games |-> Null, only_game |-> Null] :
         ns \in (IF loader = "tracking" THEN BOOLEAN ELSE {FALSE}),
         dv \in (IF loader = "smoothballs"
                 THEN {<<FALSE, FALSE>>, <<FALSE, TRUE>>, <<TRUE, TRUE>>}
                 ELSE {<<FALSE, FALSE>>}) }

Loaders == {"smoothballs", "smoothtracking", "tracking"}

Times == {Null, Num(0), Num(100)}
FrameNums == {Null, Num(1), Num(2)}

\* the store failures of the pipeline runs: one of each class
PipeErrors == {e \in StoreErrors : e.repr[Len(e.repr)] \in {"ReadTimeout", "503", "body"}}

Init ==
    /\ \E loader \in Loaders : \E a \in ArgsOf(loader) :
          PipeInit([objs |-> ObjsOf(loader, Times, FrameNums, AnyPositions),
                    max_recs |-> MaxRecs, max_files |-> MaxFiles,
                    errors |-> PipeErrors, max_faults |-> MaxFaults,
                    bad_lines |-> TRUE, in_order |-> FALSE], a)
    /\ dd = DdIdle

Next ==
    \/ \E g \in {Null, Num(file_no + 1)} : NextFile(g)
    \/ AllDone
    \/ \E obj \in input.objs : ReadRecord(obj)
    \/ ReadBadLine
    \/ EndOfFile
    \/ FlushTable
    \/ FlushClear
    \/ StoreCallReturns
    \/ \E e \in StoreErrors : StoreCallRaises(e)
    \/ RecreateClient
    \/ Sleep
    \/ VerifyCounts
    \/ \E e \in StoreErrors : VerifyRaises(e)
    \/ FileCounted

Spec == Init /\ [][Next]_vars

-----------------------------------------------------------------------------
(* Runs over one jittery file, the store never failing *)

DsMaxRecs == 5

DsTimes == {Null, Num(0), Num(40), Num(90), Num(100), Num(210)}

DsObjs(loader) ==
    ObjsOf(loader, DsTimes, {Num(1)}, {NoItems})
       \cup ObjsOf(loader, {Num(100)}, {Null}, {NoItems})

InitDownsample ==
    /\ \E loader \in Loaders : \E a \in ArgsOf(loader) :
          /\ ~a.dry_run /\ ~a.verify /\ ~a.no_smoothed
          /\ PipeInit([objs |-> DsObjs(loader), max_recs |-> DsMaxRecs, max_files |-> 1,
                       errors |-> {}, max_faults |-> 0, bad_lines |-> FALSE,
                       in_order |-> FALSE], a)
    /\ dd = DdIdle

NextDownsample ==
    \/ \E g \in {Num(file_no + 1)} : NextFile(g)
    \/ AllDone
    \/ \E obj \in input.objs : ReadRecord(obj)
    \/ EndOfFile
    \/ FlushTable
    \/ FlushClear
    \/ StoreCallReturns
    \/ FileCounted

SpecDownsample == InitDownsample /\ [][NextDownsample]_vars

-----------------------------------------------------------------------------
(* Runs over several files, the store never failing *)

InitFiles ==
    /\ \E loader \in Loaders : \E a \in ArgsOf(loader) :
          /\ ~a.dry_run /\ ~a.verify
          /\ PipeInit([objs |-> ObjsOf(loader, Times, FrameNums, AnyPositions),
                       max_recs |-> MaxRecs, max_files |-> MaxFiles,
                       errors |-> {}, max_faults |-> 0, bad_lines |-> FALSE,
                       in_order |-> FALSE], a)
    /\ dd = DdIdle

SpecFiles == InitFiles /\ [][NextDownsample]_vars

-----------------------------------------------------------------------------
(* Runs over few records with a store that fails often *)

RetryMaxFaults == 8
RetryMaxRecs == 2

RetryObjs(loader) == ObjsOf(loader, {Num(0), Num(100)}, {Num(1)}, AnyPositions \ {NoItems})

InitRetry ==
    /\ \E loader \in Loaders : \E a \in ArgsOf(loader) :
          /\ ~a.dry_run /\ ~a.no_smoothed
          /\ PipeInit([objs |-> RetryObjs(loader), max_recs |-> RetryMaxRecs,
                       max_files |-> MaxFiles,
                       errors |-> StoreErrors, max_faults |-> RetryMaxFaults,
                       bad_lines |-> TRUE, in_order |-> FALSE], a)
    /\ dd = DdIdle

SpecRetry == InitRetry /\ [][Next]_vars

-----------------------------------------------------------------------------
(* Deduplication of a list of rows, called on its own *)

DdMaxLen == 3

DdRows ==
    { [game_id |-> Num(1), frame_num |-> fn, video_time_ms |-> t] :
        fn \in {Num(1), Num(2)}, t \in {Num(0), Num(100)} }

DdKeys == { FrameKey, <<"frame_num">>, <<"game_id">>, BallKey }

RECURSIVE SeqsUpTo(_, _)
SeqsUpTo(S, n) ==
    IF n = 0 THEN {<<>>}
    ELSE LET shorter == SeqsUpTo(S, n - 1)
         IN  shorter \cup {Append(q, x) : q \in shorter, x \in S}

\* dedupe_rows(rows, key_fields) and dedup_by_key(rows, lambda r: (r[f], ...))
DedupeCall ==
    /\ ~dd.done
    /\ dd' = [dd EXCEPT !.out = dedupe_rows(dd.rows, dd.key),
                        !.out_fn = LET key_fn == [r \in DdRows |-> KeyOf(r, dd.key)]
                                   IN  dedup_by_key(dd.rows, key_fn),
                        !.done = TRUE]
    /\ UNCHANGED pipe_vars

InitDedupe ==
    /\ \E a \in ArgsOf("smoothballs") :
          /\ ~a.dry_run /\ ~a.verify
          /\ PipeInit([objs |-> {}, max_recs |-> 0, max_files |-> 0, errors |-> {},
                       max_faults |-> 0, bad_lines |-> FALSE, in_order |-> FALSE], a)
    /\ \E rows \in SeqsUpTo(DdRows, DdMaxLen) : \E key \in DdKeys :
          dd = [DdIdle EXCEPT !.rows = rows, !.key = key]

NextDedupe == DedupeCall

SpecDedupe == InitDedupe /\ [][NextDedupe]_vars

-----------------------------------------------------------------------------
(* Properties *)

\* C1 (as claimed): every upsert call that flush() hands to safe_upsert holds
\* at most one row per value of the composite key of its table, in every
\* tracking loader.
C1_UpsertCallHasUniqueKeys ==
    pc = "upsert" => ~HasDuplicateKey(su.rows, PrimaryKey(su.table))

LastIndexOf(rows, key_fields, k) ==
    CHOOSE j \in DOMAIN rows :
        /\ KeyOf(rows[j], key_fields) = k
        /\ \A i \in DOMAIN rows : KeyOf(rows[i], key_fields) = k => i <= j

OneRowPerKeyLastWins(rows, key_fields, out) ==
    /\ Len(out) = Cardinality(KeysOf(rows, key_fields))
    /\ KeysOf(out, key_fields) = KeysOf(rows, key_fields)
    /\ \A i \in DOMAIN out :
          out[i] = rows[LastIndexOf(rows, key_fields, KeyOf(out[i], key_fields))]
    /\ Range(out) \subseteq Range(rows)

\* C2: dedupe_rows and dedup_by_key return exactly one row per distinct key
\* of the input, the row being the last input row with that key, and return
\* no row that is not in the input.
C2_DedupeKeepsLastPerKey ==
    dd.done => /\ OneRowPerKeyLastWins(dd.rows, dd.key, dd.out)
               /\ OneRowPerKeyLastWins(dd.rows, dd.key, dd.out_fn)

\* two rows of one key with different payloads went in, one row came out
C2_Witness ==
    /\ dd.done
    /\ dd.key = FrameKey
    /\ Len(dd.rows) = 3
    /\ dd.rows[1] # dd.rows[3]
    /\ KeyOf(dd.rows[1], dd.key) = KeyOf(dd.rows[3], dd.key)
    /\ KeyOf(dd.rows[1], dd.key) # KeyOf(dd.rows[2], dd.key)
    /\ dd.out = <<dd.rows[3], dd.rows[2]>>

\* C3: within one file, two frame rows appended one after the other to
\* frames_buf (with or without a flush between them) have timestamps at
\* least min_dt_ms apart, whatever the order of the input timestamps.
C3_AppendedFramesSpaced ==
    \A i \in 1..(Len(hist.app_ts) - 1) :
        Val(hist.app_ts[i + 1]) - Val(hist.app_ts[i]) >= args.min_dt_ms

\* three frames appended, a flush between the second and the third, from
\* timestamps that went backwards
C3_Witness ==
    /\ pc = "read"
    /\ Len(hist.app_ts) = 3
    /\ Len(frames_buf) = 1
    /\ \E i \in 1..(Len(hist.seen_ts) - 1) :
          /\ IsNum(hist.seen_ts[i]) /\ IsNum(hist.seen_ts[i + 1])
          /\ Val(hist.seen_ts[i + 1]) < Val(hist.seen_ts[i])

\* the greedy selection: left to right, a timestamp is kept iff none was
\* kept yet or it is at least min_dt after the last kept one
RECURSIVE Greedy(_, _, _)
Greedy(ts, min_dt, kept) ==
    IF ts = <<>> THEN kept
    ELSE LET t == Head(ts)
         IN  IF IsNone(t) THEN Greedy(Tail(ts), min_dt, kept)
             ELSE IF kept = <<>> \/ Val(t) - Val(kept[Len(kept)]) >= min_dt
             THEN Greedy(Tail(ts), min_dt, Append(kept, t))
             ELSE Greedy(Tail(ts), min_dt, kept)

Last(q) == q[Len(q)]

ReadsRecordWithoutTime ==
    /\ pc = "read"
    /\ nread' = nread + 1
    /\ Len(hist'.seen_ts) = Len(hist.seen_ts) + 1
    /\ IsNone(Last(hist'.seen_ts))

\* C4: the timestamps that pass the time filter are the greedy selection
\* over the timestamps read so far, [0, 40, 90, 100, 210] with min_dt_ms 100
\* keeps [0, 100, 210], and a record without a timestamp changes neither the
\* last-kept timestamp nor a buffer.
C4_TimeFilterIsGreedy ==
    /\ [](hist.kept_ts = Greedy(hist.seen_ts, args.min_dt_ms, <<>>))
    /\ []((args.min_dt_ms = 100
            /\ hist.seen_ts = <<Num(0), Num(40), Num(90), Num(100), Num(210)>>)
          => hist.kept_ts = <<Num(0), Num(100), Num(210)>>)
    /\ [][ReadsRecordWithoutTime =>
            UNCHANGED <<last_keep_ms, frames_buf, players_buf, balls_buf>>]_vars

C4_Witness ==
    /\ args.min_dt_ms = 100
    /\ hist.seen_ts = <<Num(0), Num(40), Num(90), Num(100), Num(210)>>
    /\ hist.kept_ts = <<Num(0), Num(100), Num(210)>>

FirstOf(q) == IF q = <<>> THEN <<>> ELSE <<q[1]>>

FirstTimed(ts) == FirstOf(SelectSeq(ts, IsNum))

\* C5: when the reading of a file starts the last-kept timestamp is unset,
\* and in every file the first record that has a timestamp passes the time
\* filter, whatever was kept in the files before it.
C5_FirstTimedRecordOfFileKept ==
    /\ (pc = "read" /\ hist.seen_ts = <<>>) => IsNone(last_keep_ms)
    /\ FirstTimed(hist.seen_ts) = FirstOf(hist.kept_ts)

\* the second file starts at 0 ms after 100 ms was kept in the first file
C5_Witness ==
    /\ file_no = 2
    /\ hist.kept_ts = <<Num(0)>>
    /\ \E r \in store["tracking_frames"] :
          r.game_id = Num(1) /\ r.video_time_ms = Num(100)

-----------------------------------------------------------------------------
(* safe_upsert: attempts, backoff, client replacement, classification *)

FairMaxRecs == 1
FairMaxFiles == 1

InitRetryFair ==
    /\ \E loader \in Loaders : \E a \in ArgsOf(loader) :
          /\ ~a.dry_run /\ ~a.no_smoothed
          /\ PipeInit([objs |-> RetryObjs(loader), max_recs |-> FairMaxRecs,
                       max_files |-> FairMaxFiles,
                       errors |-> StoreErrors, max_faults |-> RetryMaxFaults,
                       bad_lines |-> TRUE, in_order |-> FALSE], a)
    /\ dd = DdIdle

\* runs in which every step that can be taken is taken: the program is
\* sequential and a store call either returns or raises
SpecRetryFair == InitRetryFair /\ [][Next]_vars /\ WF_vars(Next)

TransientWords ==
    {"ConnectionTerminated", "RemoteProtocolError", "ReadTimeout", "WriteTimeout",
     "ConnectTimeout", "502", "503", "504"}

\* the text of the error holds one of the nine indicators
HasTransientText(e) ==
    \/ \E i \in DOMAIN e.repr : e.repr[i] \in TransientWords
    \/ \E i \in 1..(Len(e.repr) - 1) :
          e.repr[i] = "Server" /\ e.repr[i + 1] = "disconnected"

InSafeUpsert == pc \in {"upsert", "recreate", "sleep"}

\* every row handed to the call is in the store under its key
RowsInStore ==
    \A i \in DOMAIN su.rows :
        \E r \in store[su.table] :
            /\ KeyOf(r, PrimaryKey(su.table)) = KeyOf(su.rows[i], PrimaryKey(su.table))
            /\ r \in Range(su.rows)

\* C6: a safe_upsert call whose first two store calls failed transiently and
\* whose third succeeded has returned after exactly three store calls with
\* its rows applied once; a call whose first store call failed with an error
\* that is not transient made exactly one store call and the error left it.
C6_ThirdAttemptSucceedsPermanentPropagates ==
    /\ (su.status = "returned" /\ su.attempt = 2) =>
          /\ su.calls = 3
          /\ su.applied = 1
          /\ RowsInStore
          /\ pc # "raised"
    /\ (su.attempt = 0 /\ su.exc # NoErr /\ ~HasTransientText(su.exc)) =>
          /\ su.status = "raised"
          /\ su.calls = 1
          /\ su.applied = 0
          /\ pc = "raised"
          /\ err = su.exc

\* the third store call of a safe_upsert call returned after two retried
\* failures, and the run went on
C6_Witness ==
    /\ su.status = "returned"
    /\ su.attempt = 2
    /\ su.calls = 3
    /\ hist.retried = 2
    /\ pc = "flush"

\* C7: a safe_upsert call makes at most max_retries store calls and ends:
\* it returns after its first store call that completes, all the calls
\* before it having failed, or it raises the error of the store call that
\* was not transient or was the max_retries-th call.
C7_SafeUpsertEndsWithinMaxRetries ==
    /\ [](/\ su.calls <= max_retries
          /\ InSafeUpsert => su.applied = 0
          /\ pc \in {"recreate", "sleep"} =>
                su.calls < max_retries /\ su.calls = su.attempt + 1
          /\ su.status = "returned" =>
                su.applied = 1 /\ su.calls = su.attempt + 1
          /\ su.status = "raised" =>
                /\ su.applied = 0
                /\ su.calls = su.attempt + 1
                /\ pc = "raised"
                /\ err = su.exc
                /\ ~HasTransientText(su.exc) \/ su.calls = max_retries)
    /\ (InSafeUpsert ~> su.status \in {"returned", "raised"})

\* the eighth store call of a safe_upsert call failed with a transient
\* error, which was raised
C7_Witness ==
    /\ su.status = "raised"
    /\ su.calls = max_retries
    /\ HasTransientText(su.exc)
    /\ pc = "raised"

BaseDelaysMs == <<1000, 2000, 4000, 8000, 16000, 32000, 60000>>

\* C8: the sleep after the retried failure of 0-indexed attempt k is
\* min(60 s, 2^k s) plus a jitter of less than a second: the bases over the
\* attempts 0..6 are 1, 2, 4, 8, 16, 32 and 60 seconds, never decrease and
\* never exceed 60 seconds.
C8_BackoffDelays ==
    /\ pc \in {"recreate", "sleep"} =>
          /\ su.attempt \in 0..6
          /\ su.wait - BaseDelaysMs[su.attempt + 1] \in 0..999
          /\ su.wait < 61000
    /\ \A k \in 0..5 : BackoffBase(k) <= BackoffBase(k + 1)
    /\ \A k \in 0..6 : BackoffBase(k) = BaseDelaysMs[k + 1]

\* the sleep after the seventh failed attempt: the capped base and a jitter
C8_Witness ==
    /\ pc = "sleep"
    /\ su.attempt = 6
    /\ su.wait = 60999

\* C9: a store call that follows a failed one goes through a client made
\* after that failure; the client is replaced before the sleep, once per
\* retry; every later write and verification query uses the replacement.
C9_RetryUsesFreshClient ==
    /\ sb_ref <= clients_made
    /\ pc # "recreate" => sb_ref = clients_made /\ clients_made = 1 + hist.retried
    /\ pc = "recreate" => sb_ref = su.client /\ clients_made = hist.retried
    /\ pc = "sleep" => sb_ref > su.client
    /\ (pc = "upsert" /\ su.attempt > 0) => sb_ref > su.client
    /\ hist.used \notin {0, clients_made} =>
          \/ pc \in {"recreate", "sleep"}
          \/ pc = "upsert" /\ su.attempt > 0
    /\ su.status \in {"returned", "raised"} => su.client = clients_made

\* the verification queries of a file went through the client that replaced
\* the first one after a failed write
C9_Witness ==
    /\ hist.verified # <<>>
    /\ pc = "counted"
    /\ hist.retried >= 1
    /\ sb_ref >= 2
    /\ hist.used = sb_ref

\* C10 (as claimed): a failed store call is retried only if it is a
\* connection, timeout or 5xx failure; any other failure causes no retry,
\* no sleep and no client replacement and propagates after one attempt,
\* whatever its text.
C10_RetriedOnlyIfTransientClass ==
    /\ pc \in {"recreate", "sleep"} => su.exc.kind \in TransientKinds
    /\ (su.exc # NoErr /\ su.exc.kind \notin TransientKinds) =>
          /\ su.status = "raised"
          /\ pc = "raised"
          /\ err = su.exc
          /\ su.wait = 0
          /\ sb_ref = su.client

\* C10 (amended): a failed store call is retried if and only if the text of
\* its error holds one of the nine indicators and it was not the last
\* attempt, whatever the failure is; a failure whose text holds none causes
\* no retry, no sleep and no client replacement and propagates at once.
C10_RetriedIffTransientText ==
    /\ pc \in {"recreate", "sleep"} => HasTransientText(su.exc)
    /\ (su.exc # NoErr /\ HasTransientText(su.exc) /\ su.calls < max_retries) =>
          pc \in {"recreate", "sleep"}
    /\ (su.exc # NoErr /\ ~HasTransientText(su.exc)) =>
          /\ su.status = "raised"
          /\ pc = "raised"
          /\ err = su.exc
          /\ su.wait = 0
          /\ sb_ref = su.client
          /\ su.calls = su.attempt + 1

\* a constraint violation whose text holds "503" is being retried
C10_Witness ==
    /\ pc = "sleep"
    /\ su.exc.kind = "constraint"
    /\ HasTransientText(su.exc)
    /\ sb_ref > su.client

-----------------------------------------------------------------------------
(* Batching: thresholds and flushes *)

\* a buffer of a table the loader writes holds as many rows as its threshold
AnyBufferFull(fb, pb, bb) ==
    CASE args.loader = "smoothballs" ->
            Len(fb) >= args.batch_frames \/ Len(bb) >= args.batch_balls
      [] args.loader = "smoothtracking" ->
            Len(fb) >= args.batch_frames \/ Len(pb) >= args.batch_players
      [] OTHER ->
            Len(fb) >= args.batch \/ Len(pb) >= 22 * args.batch
               \/ Len(bb) >= 4 * args.batch

AllBuffersEmpty == frames_buf = <<>> /\ players_buf = <<>> /\ balls_buf = <<>>

\* every row of the buffer is in the table under its key
BufferStored(buf, table) ==
    \A i \in DOMAIN buf :
        \E r \in store[table] :
            KeyOf(r, PrimaryKey(table)) = KeyOf(buf[i], PrimaryKey(table))

AllBuffersStored ==
    /\ BufferStored(frames_buf, "tracking_frames")
    /\ args.loader = "smoothballs" =>
          BufferStored(balls_buf, "tracking_ball_positions_smoothed")
    /\ args.loader = "smoothtracking" =>
          BufferStored(players_buf, "tracking_player_positions_smoothed")
    /\ args.loader = "tracking" =>
          /\ BufferStored(players_buf, "tracking_player_positions")
          /\ BufferStored(balls_buf, "tracking_ball_positions")

\* a kept record's rows are appended
AppendsRows == pc = "read" /\ Len(frames_buf') = Len(frames_buf) + 1 /\ pc' # "raised"

FlushReturns == pc = "flush" /\ pc' \notin {"flush", "upsert"}

\* C11: when a buffer has reached its threshold after the rows of a kept
\* record are appended, flush() is called, and when that flush returns every
\* buffer has been written to its table and every buffer is empty, not only
\* the one that reached its threshold.
C11_FlushWritesAndClearsAllBuffers ==
    /\ [][(AppendsRows /\ AnyBufferFull(frames_buf', players_buf', balls_buf'))
            => (pc' = "flush" /\ fstage' = 1 /\ flush_ret' = "read")]_vars
    /\ [][FlushReturns =>
            /\ frames_buf' = <<>> /\ players_buf' = <<>> /\ balls_buf' = <<>>
            /\ ~args.dry_run => AllBuffersStored]_vars

\* a flush that the frames threshold started has returned to the read loop:
\* the ball rows, fewer than their threshold, are stored and their buffer is
\* empty
C11_Witness ==
    /\ args.loader = "smoothballs"
    /\ pc = "read"
    /\ flush_count = 1
    /\ AllBuffersEmpty
    /\ Cardinality(store["tracking_frames"]) = args.batch_frames
    /\ Cardinality(store["tracking_ball_positions_smoothed"]) \in 1..(args.batch_balls - 1)

\* C12: appending rows until a buffer reaches its threshold starts exactly
\* one flush: the read loop never holds a buffer at its threshold, a flush
\* starts from the read loop only when a threshold is reached, it hands each
\* table to safe_upsert once (one store call when the call succeeds), and
\* the buffers are empty when it returns to where it was called from.
C12_ThresholdStartsOneFlush ==
    /\ [](pc = "read" => ~AnyBufferFull(frames_buf, players_buf, balls_buf))
    /\ [][(pc = "read" /\ pc' = "flush" /\ flush_ret' = "read") =>
            /\ AnyBufferFull(frames_buf', players_buf', balls_buf')
            /\ Len(frames_buf') = Len(frames_buf) + 1
            /\ args.loader = "smoothballs" => flush_count' = flush_count + 1]_vars
    /\ [][(pc = "flush" /\ pc' = "upsert") =>
            su'.table = Tables(args.loader)[fstage] /\ su'.calls = 0]_vars
    /\ [][(pc = "upsert" /\ pc' = "flush") =>
            /\ fstage' = fstage + 1
            /\ su'.applied = 1
            /\ su.attempt = 0 => su'.calls = 1]_vars
    /\ [][FlushReturns => (AllBuffersEmpty' /\ pc' = flush_ret /\ fstage' = 0)]_vars

\* the frames buffer reached its threshold, one flush wrote it in one store
\* call, and the read loop goes on with empty buffers
C12_Witness ==
    /\ args.loader = "smoothtracking"
    /\ pc = "read"
    /\ hist.faults = 0
    /\ AllBuffersEmpty
    /\ Cardinality(store["tracking_frames"]) = args.batch_frames
    /\ su = SuIdle

-----------------------------------------------------------------------------
(* The program run again over the same file: a second run after a complete  *)
(* one, and a restart after an interrupted one.                             *)

RerunMaxRecs == 3

RerunTimes == {Num(0), Num(100), Num(200)}

RerunObjs(loader) ==
    ObjsOf(loader, RerunTimes, {Num(1), Num(2)}, AnyPositions \ {NoItems})

\* a store failure that safe_upsert does not retry
PermanentErrors == {e \in StoreErrors : e.repr[Len(e.repr)] = "body"}

\* the program is started: main() from its first line, the store as it is
StartRun(h) ==
    /\ pc' = "files"
    /\ game_id' = 0
    /\ file_no' = 0
    /\ nread' = 0
    /\ last_keep_ms' = Null
    /\ frames_buf' = <<>>
    /\ players_buf' = <<>>
    /\ balls_buf' = <<>>
    /\ fstage' = 0
    /\ flush_ret' = "read"
    /\ flush_count' = 0
    /\ games_done' = 0
    /\ su' = SuIdle
    /\ sb_ref' = 1
    /\ clients_made' = 1
    /\ err' = NoErr
    /\ hist' = h
    /\ UNCHANGED <<input, args, dd>>

\* the complete first run is followed by a second one
RunAgain ==
    /\ pc = "done"
    /\ hist.run = "first"
    /\ StartRun([HistInit EXCEPT !.run = "again", !.once = store])
    /\ UNCHANGED store

\* the complete first run is kept for comparison; the program is run over an
\* empty store once more, to be interrupted
RunAfresh ==
    /\ pc = "done"
    /\ hist.run = "first"
    /\ store' = EmptyStore
    /\ StartRun([HistInit EXCEPT !.run = "cut", !.once = store])

\* the run is killed where it is, or has ended with an error, and the
\* program is started again
Interrupt ==
    /\ hist.run = "cut"
    /\ pc # "done"
    /\ StartRun([HistInit EXCEPT !.run = "restart", !.once = hist.once])
    /\ UNCHANGED store

InitRerun ==
    /\ \E loader \in Loaders : \E a \in ArgsOf(loader) :
       \E recs \in SeqsUpTo(RerunObjs(loader), RerunMaxRecs) \ {<<>>} :
       \E in_order \in BOOLEAN :
          /\ ~a.dry_run /\ ~a.verify /\ ~a.no_smoothed
          /\ PipeInit([objs |-> RerunObjs(loader), recs |-> recs, max_recs |-> Len(recs),
                       max_files |-> 1, errors |-> PermanentErrors, max_faults |-> 1,
                       bad_lines |-> FALSE, in_order |-> in_order], a)
    /\ dd = DdIdle

NextRerun ==
    \/ \E g \in {Num(file_no + 1)} : NextFile(g)
    \/ file_no = input.max_files /\ AllDone
    \/ nread < input.max_recs /\ ReadRecord(input.recs[nread + 1])
    \/ nread = input.max_recs /\ EndOfFile
    \/ FlushTable
    \/ FlushClear
    \/ StoreCallReturns
    \/ \E e \in PermanentErrors \cup {DuplicateKeyError} : StoreCallRaises(e)
    \/ FileCounted
    \/ RunAgain
    \/ RunAfresh
    \/ Interrupt

SpecRerun == InitRerun /\ [][NextRerun]_vars

NoDuplicateKeysInStore ==
    \A t \in AllTables : \A r1, r2 \in store[t] :
        KeyOf(r1, PrimaryKey(t)) = KeyOf(r2, PrimaryKey(t)) => r1 = r2

\* C13: with the store a map from key to row and upsert insert-or-overwrite,
\* a second complete run over the same file with the same command line
\* leaves the store exactly as the first run left it, one row per key.
C13_SecondRunLeavesStoreAsFirst ==
    (input.in_order /\ hist.run = "again" /\ pc = "done") =>
        /\ store = hist.once
        /\ NoDuplicateKeysInStore

\* the second run has ended; a key was written in two batches of each run
\* with different rows
C13_Witness ==
    /\ input.in_order
    /\ hist.run = "again"
    /\ pc = "done"
    /\ args.loader = "smoothballs"
    /\ Len(input.recs) = 3
    /\ input.recs[1].frameNum = input.recs[3].frameNum
    /\ input.recs[1].frameNum # input.recs[2].frameNum
    /\ Cardinality(store["tracking_frames"]) = 2
    /\ \E r \in store["tracking_frames"] : r.video_time_ms = Num(200)

-----------------------------------------------------------------------------
(* One file of game 3812: five records, two of them with one frame number,  *)
(* loaded by load_smoothballs_10fps.py --batch-frames 500 --verify          *)

\* the frame numbers 1..5 with the j-th record repeating the number of the i-th
PairedFrameNums(i, j) == [k \in 1..5 |-> IF k = j THEN Num(i) ELSE Num(k)]

ScenarioTimes ==
    { <<Num(0), Num(100), Num(200), Num(300), Num(400)>>,
      <<Num(50), Num(150), Num(400), Num(500), Num(1000)>> }

ScenarioRecs ==
    { [k \in 1..5 |-> Obj(ts[k], PairedFrameNums(ij[1], ij[2])[k], NoItems, bs[k],
                          NoItems, NoItems)] :
        ts \in ScenarioTimes,
        ij \in {p \in (1..5) \X (1..5) : p[1] < p[2]},
        bs \in [1..5 -> {NoItems, List(<<Ball(Num(1), Num(1))>>)}] }

ScenarioArgs ==
    [loader |-> "smoothballs", min_dt_ms |-> 100, batch |-> 500, batch_frames |-> 500,
     batch_players |-> 8000, batch_balls |-> 2000, no_smoothed |-> FALSE,
     dry_run |-> FALSE, verify |-> TRUE, max_games |-> Null, only_game |-> Null]

InitScenario ==
    /\ \E recs \in ScenarioRecs :
          PipeInit([objs |-> Range(recs), recs |-> recs, max_recs |-> Len(recs),
                    max_files |-> 1, errors |-> {}, max_faults |-> 0,
                    bad_lines |-> FALSE, in_order |-> FALSE], ScenarioArgs)
    /\ dd = DdIdle

NextScenario ==
    \/ NextFile(Num(3812))
    \/ file_no = input.max_files /\ AllDone
    \/ nread < input.max_recs /\ ReadRecord(input.recs[nread + 1])
    \/ nread = input.max_recs /\ EndOfFile
    \/ FlushTable
    \/ FlushClear
    \/ StoreCallReturns
    \/ VerifyCounts
    \/ FileCounted

SpecScenario == InitScenario /\ [][NextScenario]_vars

FramesCallStarts ==
    pc = "flush" /\ pc' = "upsert" /\ su'.table = "tracking_frames"

\* C15: the five records of game 3812 all pass the time filter; with a frame
\* threshold of 500 and an empty store the frames table gets exactly one
\* write call, at the end of the file, with the four deduplicated frame
\* rows, and the count query for game 3812 on the frames table returns 4.
C15_OneCallFourRowsCountFour ==
    /\ [][FramesCallStarts =>
            /\ store["tracking_frames"] = {}
            /\ nread = 5 /\ Len(hist.kept_ts) = 5 /\ Len(frames_buf) = 5
            /\ flush_count' = 1
            /\ Len(su'.rows) = 4
            /\ ~HasDuplicateKey(su'.rows, FrameKey)
            /\ \A i \in 1..4 : su'.rows[i].game_id = Num(3812)]_vars
    /\ [][(pc = "upsert" /\ pc' # "upsert" /\ su.table = "tracking_frames") =>
            /\ su'.calls = 1
            /\ Cardinality(store'["tracking_frames"]) = 4]_vars
    /\ [](pc \in {"counted", "done"} =>
            /\ flush_count = 1
            /\ Cardinality(store["tracking_frames"]) = 4
            /\ Len(hist.verified) = 3
            /\ hist.verified[1] = 3812
            /\ hist.verified[2] = 4)

\* the run has ended: one flush, four frame rows of game 3812, the count 4
C15_Witness ==
    /\ pc = "done"
    /\ game_id = 3812
    /\ flush_count = 1
    /\ Len(hist.kept_ts) = 5
    /\ Cardinality(store["tracking_frames"]) = 4
    /\ hist.verified[2] = 4

-----------------------------------------------------------------------------
(* load_smoothballs_10fps.py with and without --dry-run and --verify, the   *)
(* store never failing                                                      *)

InitDryRun ==
    /\ \E a \in ArgsOf("smoothballs") : \E d, v \in BOOLEAN :
          PipeInit([objs |-> ObjsOf("smoothballs", Times, FrameNums, AnyPositions),
                    max_recs |-> MaxRecs, max_files |-> MaxFiles,
                    errors |-> {}, max_faults |-> 0, bad_lines |-> FALSE,
                    in_order |-> FALSE],
                   [a EXCEPT !.dry_run = d, !.verify = v])
    /\ dd = DdIdle

NextDryRun ==
    \/ NextDownsample
    \/ VerifyCounts

SpecDryRun == InitDryRun /\ [][NextDryRun]_vars

\* C16: with --dry-run no upsert call and no count query ever reaches the
\* store, whatever the input, while the records are read, filtered by time
\* and buffered, a reached threshold starts a flush, and every flush empties
\* the buffers, as in a run that writes.
C16_DryRunNeverTouchesStore ==
    /\ [](args.dry_run =>
            /\ pc \notin {"upsert", "recreate", "sleep", "verify"}
            /\ store = EmptyStore
            /\ su = SuIdle
            /\ hist.used = 0
            /\ hist.verified = <<>>
            /\ hist.kept_ts = Greedy(hist.seen_ts, args.min_dt_ms, <<>>)
            /\ pc = "read" => ~AnyBufferFull(frames_buf, players_buf, balls_buf))
    /\ [][(args.dry_run /\ AppendsRows) =>
            /\ Last(frames_buf').video_time_ms = Last(hist'.kept_ts)
            /\ AnyBufferFull(frames_buf', players_buf', balls_buf') =>
                  (pc' = "flush" /\ flush_count' = flush_count + 1)]_vars
    /\ [][(args.dry_run /\ FlushReturns) => (AllBuffersEmpty' /\ pc' = flush_ret)]_vars

\* a dry run with --verify has read two files, flushed at the threshold in
\* the first and at the end of the second, and touched nothing
C16_Witness ==
    /\ args.dry_run /\ args.verify
    /\ pc = "done"
    /\ file_no = 2
    /\ flush_count = 2
    /\ games_done = 2
    /\ store = EmptyStore

-----------------------------------------------------------------------------
(* iter_jsonl_bz2() over files whose lines are records, blank lines and     *)
(* lines that are not JSON, the store never failing                         *)

LinesMax == 3

LineKinds == {"rec", "blank", "bad"}

LineOutcomeLenient(kind) == IF kind = "rec" THEN "parse" ELSE "skip"

\* line = line.strip(); if not line: continue; yield json.loads(line)
LineOutcome(kind) ==
    CASE kind = "blank" -> "skip"
      [] kind = "bad" -> "raise"
      [] OTHER -> "parse"

NextLineIs(outcome) ==
    /\ nread < Len(input.lines)
    /\ LineOutcome(input.lines[nread + 1]) = outcome

\* a blank line: the generator goes on to the next line
SkipBlankLine ==
    /\ pc = "read"
    /\ nread < input.max_recs
    /\ nread' = nread + 1
    /\ UNCHANGED <<input, args, pc, game_id, file_no, last_keep_ms, frames_buf,
                   players_buf, balls_buf, fstage, flush_ret, flush_count, games_done,
                   su, sb_ref, clients_made, store, err, hist, dd>>

InitLines ==
    /\ \E loader \in Loaders : \E a \in ArgsOf(loader) :
       \E lines \in SeqsUpTo(LineKinds, LinesMax) \ SeqsUpTo(LineKinds, LinesMax - 1) :
          /\ ~a.dry_run /\ ~a.verify /\ ~a.no_smoothed
          /\ PipeInit([objs |-> RetryObjs(loader), lines |-> lines,
                       max_recs |-> Len(lines), max_files |-> MaxFiles,
                       errors |-> {}, max_faults |-> 0, bad_lines |-> TRUE,
                       in_order |-> FALSE], a)
    /\ dd = DdIdle

NextLines ==
    \/ \E g \in {Num(file_no + 1)} : NextFile(g)
    \/ AllDone
    \/ NextLineIs("parse") /\ \E obj \in input.objs : ReadRecord(obj)
    \/ NextLineIs("raise") /\ ReadBadLine
    \/ NextLineIs("skip") /\ SkipBlankLine
    \/ EndOfFile
    \/ FlushTable
    \/ FlushClear
    \/ StoreCallReturns
    \/ FileCounted

SpecLines == InitLines /\ [][NextLines]_vars

\* the step that consumes a line of the given kind
LineRead(kind) ==
    /\ pc = "read"
    /\ nread' = nread + 1
    /\ input.lines[nread'] = kind

\* C18 as stated: a line that is not valid JSON raises an error that aborts
\* its own source unit only, so that after it the run is back in its loop
\* over the files, with the other units still to be processed.
C18_ParseErrorAbortsOnlyItsUnit ==
    [][LineRead("bad") => (err' = JSONDecodeError /\ pc' = "files")]_vars

\* C18 amended: a non-blank line that is not valid JSON raises
\* JSONDecodeError, which nothing catches: the run ends at that line, no
\* later line of the file and no later file is read, nothing more is written,
\* the rows still buffered are not written and the rows already stored stay.
\* A blank line is skipped without a trace.
C18_ParseErrorEndsTheRun ==
    /\ [][LineRead("bad") =>
            /\ pc' = "raised"
            /\ err' = JSONDecodeError
            /\ UNCHANGED <<store, frames_buf, players_buf, balls_buf, flush_count,
                           file_no, games_done, su>>]_vars
    /\ [][pc = "raised" => FALSE]_vars
    /\ [](pc = "raised" => (err = JSONDecodeError /\ input.lines[nread] = "bad"))
    /\ [][LineRead("blank") =>
            UNCHANGED <<pc, err, store, frames_buf, players_buf, balls_buf, flush_count,
                        file_no, last_keep_ms, hist>>]_vars

\* the run ended at a line that is not JSON, the last of its first file:
\* rows of the file are stored and the next file is never opened
C18_Witness ==
    /\ pc = "raised"
    /\ err = JSONDecodeError
    /\ file_no = 1
    /\ file_no < input.max_files
    /\ store["tracking_frames"] # {}
    /\ nread = Len(input.lines)
    /\ input.lines[1] = "rec"

-----------------------------------------------------------------------------
(* Records whose videoTimeMs or frameNum is missing, a number, or a string  *)
(* that is not a number, the store never failing                            *)

FieldTimes == {Null, Num(0), Num(100), Str}
FieldFrameNums == {Null, Num(1), Str}

InitFields ==
    /\ \E loader \in {"smoothballs", "smoothtracking"} : \E a \in ArgsOf(loader) :
          /\ ~a.dry_run /\ ~a.verify
          /\ PipeInit([objs |-> ObjsOf(loader, FieldTimes, FieldFrameNums, AnyPositions),
                       max_recs |-> MaxRecs, max_files |-> MaxFiles,
                       errors |-> {}, max_faults |-> 0, bad_lines |-> FALSE,
                       in_order |-> FALSE], a)
    /\ dd = DdIdle

SpecFields == InitFields /\ [][NextDownsample]_vars

\* C19: reading a record and building its rows never raises, whatever its
\* numeric fields hold: the run is still reading the file, or flushing,
\* after every record.
C19_RowConstructionNeverRaises ==
    [][(pc = "read" /\ nread' = nread + 1) =>
          (err' = NoErr /\ pc' \in {"read", "flush"})]_vars

-----------------------------------------------------------------------------
(* One file after the other *)

BufferedRows == Range(frames_buf) \cup Range(players_buf) \cup Range(balls_buf)

\* C20: when a file is opened, and until its first record is read, every
\* buffer is empty; the rows buffered and the rows of every store call carry
\* the game id of the file being read, and no other.
C20_NothingCrossesFiles ==
    /\ [][(pc = "files" /\ pc' = "read") => AllBuffersEmpty']_vars
    /\ []((pc = "read" /\ hist.seen_ts = <<>>) => AllBuffersEmpty)
    /\ [](\A r \in BufferedRows : r.game_id = Num(game_id))
    /\ [](pc = "upsert" => \A i \in 1..Len(su.rows) : su.rows[i].game_id = Num(game_id))

\* a store call of the second file, after rows of the first were stored
C20_Witness ==
    /\ pc = "upsert"
    /\ file_no = 2
    /\ game_id = 2
    /\ su.rows # <<>>
    /\ \E r \in store["tracking_frames"] : r.game_id = Num(1)

-----------------------------------------------------------------------------
(* The order of the rows within a store call and of the store calls         *)

OrderMaxRecs == 3

OrderTimes == {Num(0), Num(100), Num(200)}

InitOrder ==
    /\ \E loader \in Loaders : \E a \in ArgsOf(loader) :
       \E batch \in {BatchFrames, BatchFrames + 1} :
          /\ ~a.dry_run /\ ~a.verify /\ ~a.no_smoothed
          /\ PipeInit([objs |-> ObjsOf(loader, OrderTimes, {Num(1), Num(2)}, {NoItems}),
                       max_recs |-> OrderMaxRecs, max_files |-> MaxFiles,
                       errors |-> {}, max_faults |-> 0, bad_lines |-> FALSE,
                       in_order |-> FALSE],
                      [a EXCEPT !.batch = batch, !.batch_frames = batch])
    /\ dd = DdIdle

SpecOrder == InitOrder /\ [][NextDownsample]_vars

TimesOf(rows) == [i \in DOMAIN rows |-> rows[i].video_time_ms]

IsSuffix(q, whole) ==
    /\ Len(q) <= Len(whole)
    /\ q = SubSeq(whole, Len(whole) - Len(q) + 1, Len(whole))

FirstIndexOf(rows, key_fields, k) ==
    CHOOSE j \in DOMAIN rows :
        /\ KeyOf(rows[j], key_fields) = k
        /\ \A i \in DOMAIN rows : KeyOf(rows[i], key_fields) = k => j <= i

\* flush() reaches the frames table with rows to write
FramesCallBegins == pc = "flush" /\ fstage = 1 /\ pc' = "upsert"

\* C21 as stated: the frame rows of every store call are listed in the order
\* in which their records were read (the records kept from one file have
\* strictly increasing videoTimeMs, so that order is the order of the rows'
\* video_time_ms), the calls take the buffered rows in the order they were
\* read, and no call for a file follows a call for a later file.
C21_CallsListFramesInReadOrder ==
    /\ [](pc = "upsert" /\ su.table = "tracking_frames" =>
            \A i, j \in DOMAIN su.rows :
                i < j => Val(su.rows[i].video_time_ms) < Val(su.rows[j].video_time_ms))
    /\ [](pc = "read" => IsSuffix(TimesOf(frames_buf), hist.app_ts))
    /\ [](\A t \in AllTables : \A r \in store[t] : Val(r.game_id) <= game_id)

\* C21 amended: the frames buffer holds the frame rows appended since the
\* last flush, in the order their records were read; a store call of a
\* deduplicating loader lists one row per key, the keys in the order of their
\* first row in the buffer and each key with its last row, so a row can
\* precede the row of a record read before it; load_tracking_10fps.py sends
\* the buffer as it is.  Files are taken in order: the game id never
\* decreases and no stored row belongs to a later file.
C21_CallsListKeysInFirstReadOrder ==
    /\ [][FramesCallBegins =>
            IF args.loader = "tracking" THEN su'.rows = frames_buf
            ELSE /\ OneRowPerKeyLastWins(frames_buf, FrameKey, su'.rows)
                 /\ \A i, j \in DOMAIN su'.rows :
                       i < j => FirstIndexOf(frames_buf, FrameKey,
                                             KeyOf(su'.rows[i], FrameKey))
                                   < FirstIndexOf(frames_buf, FrameKey,
                                                  KeyOf(su'.rows[j], FrameKey))]_vars
    /\ [](pc = "read" => IsSuffix(TimesOf(frames_buf), hist.app_ts))
    /\ [][game_id' >= game_id]_vars
    /\ [](\A t \in AllTables : \A r \in store[t] : Val(r.game_id) <= game_id)

\* a frames call whose first row comes from the third record read of the
\* file and whose second row from the second
C21_Witness ==
    /\ pc = "upsert"
    /\ su.table = "tracking_frames"
    /\ args.loader # "tracking"
    /\ Len(su.rows) = 2
    /\ Val(su.rows[1].video_time_ms) > Val(su.rows[2].video_time_ms)
    /\ Len(hist.app_ts) = 3

-----------------------------------------------------------------------------
(* One file replayed record by record by the two loaders that deduplicate   *)
(* in flush(), the store never failing                                      *)

LastMaxRecs == 3

\* every record carries a position payload that differs with its timestamp;
\* a player record names jersey 7 twice
LastObjs(loader) ==
    IF loader = "smoothballs"
    THEN { Obj(t, fn, NoItems, List(<<Ball(t, t)>>), NoItems, NoItems) :
             t \in RerunTimes, fn \in {Num(1), Num(2)} }
    ELSE { Obj(t, fn, NoItems, NoItems, NoItems,
               List(<<Player(Num(7), t), Player(Num(7), Num(Val(t) + 1))>>)) :
             t \in RerunTimes, fn \in {Num(1), Num(2)} }

InitLast ==
    /\ \E loader \in {"smoothballs", "smoothtracking"} : \E a \in ArgsOf(loader) :
       \E recs \in SeqsUpTo(LastObjs(loader), LastMaxRecs)
                      \ SeqsUpTo(LastObjs(loader), LastMaxRecs - 1) :
          /\ ~a.dry_run /\ ~a.verify
          /\ PipeInit([objs |-> LastObjs(loader), recs |-> recs, max_recs |-> Len(recs),
                       max_files |-> 1, errors |-> {}, max_faults |-> 0,
                       bad_lines |-> FALSE, in_order |-> FALSE], a)
    /\ dd = DdIdle

NextLast ==
    \/ \E g \in {Num(file_no + 1)} : NextFile(g)
    \/ file_no = input.max_files /\ AllDone
    \/ nread < input.max_recs /\ ReadRecord(input.recs[nread + 1])
    \/ nread = input.max_recs /\ EndOfFile
    \/ FlushTable
    \/ FlushClear
    \/ StoreCallReturns
    \/ FileCounted

SpecLast == InitLast /\ [][NextLast]_vars

\* the rows the read loop produces for buffer k (1 frames, 2 players,
\* 3 balls) from the records recs of one file, in the order it produces them
RECURSIVE Produced(_, _, _, _, _)
Produced(a, recs, gid, last, k) ==
    IF recs = <<>> THEN <<>>
    ELSE LET obj == Head(recs)
             t == obj.videoTimeMs
             b == BuildRows(a, obj, gid)
         IN  IF IsNone(t) \/ ~TimeFilterPasses(last, t, a.min_dt_ms)
             THEN Produced(a, Tail(recs), gid, last, k)
             ELSE (IF k = 1 THEN b.frames ELSE IF k = 2 THEN b.players ELSE b.balls)
                     \o Produced(a, Tail(recs), gid, t, k)

LastRowPerKey(rows, key_fields) ==
    {rows[LastIndexOf(rows, key_fields, k)] : k \in KeysOf(rows, key_fields)}

\* C22: when the file has been processed without error, each table of a
\* deduplicating loader holds, for every key for which the read loop produced
\* a row, the last row it produced for that key, and (the store having been
\* empty) nothing else, also when rows of one key went to different flushes.
C22_StoreHoldsLastRowPerKey ==
    (pc \in {"counted", "done"} /\ nread = input.max_recs) =>
        \A i \in DOMAIN Tables(args.loader) :
            store[Tables(args.loader)[i]] =
                LastRowPerKey(Produced(args, input.recs, game_id, Null, BufferNo(args, i)),
                              PrimaryKey(Tables(args.loader)[i]))

\* the first and the third record of the file have the same frame number,
\* all three records were kept, the first two were written by the flush at
\* the threshold and the third by the flush at the end of the file
C22_Witness ==
    /\ pc = "done"
    /\ flush_count = 2
    /\ Len(hist.app_ts) = 3
    /\ input.recs[1].frameNum = input.recs[3].frameNum
    /\ input.recs[1].frameNum # input.recs[2].frameNum
    /\ \E r \in store["tracking_frames"] :
          r.frame_num = input.recs[3].frameNum /\ r.video_time_ms = Num(200)

-----------------------------------------------------------------------------
(* What becomes of the buffered rows *)

BufOf(k) == IF k = 1 THEN frames_buf ELSE IF k = 2 THEN players_buf ELSE balls_buf

\* every row of buf is in rows, or a later row of buf with its key is
Covered(buf, rows, key_fields) ==
    \A i \in DOMAIN buf :
        \E j \in DOMAIN rows :
            /\ KeyOf(rows[j], key_fields) = KeyOf(buf[i], key_fields)
            /\ \E l \in i..Len(buf) : buf[l] = rows[j]

\* C23: in a run that writes, the rows handed to safe_upsert for a table
\* hold every row of its buffer or a later row of the buffer with the same
\* key; they stay the same through the retries; flush() passes a table
\* without a store call only when its buffer is empty, and otherwise passes
\* it only when the store call has returned with the rows stored; a buffer
\* loses rows only in flush(), by deduplication or when every table has
\* been passed.  When a store call fails for good, the buffers and the store
\* are left as they are, the error leaves flush() and the run ends there.
C23_NoRowDroppedSilently ==
    /\ [][(pc = "flush" /\ pc' = "upsert") =>
            Covered(BufOf(BufferNo(args, fstage)), su'.rows, PrimaryKey(su'.table))]_vars
    /\ [][(InSafeUpsert /\ pc' \in {"upsert", "recreate", "sleep"}) =>
            (su'.rows = su.rows /\ UNCHANGED <<frames_buf, players_buf, balls_buf, store>>)]_vars
    /\ [][(pc = "flush" /\ fstage' = fstage + 1) =>
            BufOf(BufferNo(args, fstage)) = <<>>]_vars
    /\ [][(pc = "upsert" /\ pc' = "flush") =>
            /\ fstage' = fstage + 1
            /\ su'.status = "returned"
            /\ su'.rows = su.rows
            /\ RowsInStore'
            /\ UNCHANGED <<frames_buf, players_buf, balls_buf>>]_vars
    /\ [][(\E k \in 1..3 : Len(BufOf(k)') < Len(BufOf(k))) =>
            /\ pc = "flush"
            /\ \/ fstage = Len(Tables(args.loader)) + 1
               \/ args.loader = "smoothtracking" /\ pc' = "upsert"]_vars
    /\ [][(InSafeUpsert /\ pc' = "raised") =>
            /\ err' = su'.exc
            /\ err' # NoErr
            /\ UNCHANGED <<frames_buf, players_buf, balls_buf, store, fstage>>]_vars
    /\ [][pc = "raised" => FALSE]_vars

\* the frames of a flush are stored, the write of its second table has
\* failed for good: the run has ended with the error, the buffers as they were
C23_Witness ==
    /\ pc = "raised"
    /\ su.status = "raised"
    /\ su.table # "tracking_frames"
    /\ err = su.exc
    /\ frames_buf # <<>>
    /\ BufferStored(frames_buf, "tracking_frames")
    /\ Covered(BufOf(BufferNo(args, fstage)), su.rows, PrimaryKey(su.table))

-----------------------------------------------------------------------------
(* load_events_multi.py: one file of events, its five row lists, their      *)
(* deduplication and the chunked upserts.  dd holds the loader's state:     *)
(*   at     "file" before the file is read, "upsert" in the five loops,     *)
(*          "done" after them                                               *)
(*   events the events of the file                                          *)
(*   raw    the five lists as the loop over the events built them           *)
(*   lists  the five lists after dedup_by_key                               *)
(*   tbl, c the table being written and the chunks already sent for it      *)
(*   calls  the upsert calls made, [table, rows], in order                  *)

EvMaxEvents == 3

\* rows per upsert call; the loader passes 500
EvChunk == 2

EvTables == <<"event_timeline", "game_events", "possession_events", "passes", "shots">>

EvKey(t) ==
    IF t <= 2 THEN <<"match_id", "game_event_id">>
    ELSE <<"match_id", "possession_event_id">>

\* events without a possession event, passes of possession events 1 and 2,
\* shots of possession event 1
Events ==
    { [gameEventId |-> g, possessionEventId |-> pt[1], possessionEventType |-> pt[2]] :
        g \in {Num(1), Num(2), Num(3)},
        pt \in {<<Null, "PA">>, <<Num(1), "PA">>, <<Num(1), "SH">>, <<Num(2), "PA">>} }

\* the rows one event adds to list t
EvRowsOf(e, match_id, t) ==
    CASE t = 1 -> << [match_id |-> Num(match_id), game_event_id |-> e.gameEventId,
                      possession_event_id |-> e.possessionEventId] >>
      [] t = 2 -> << [match_id |-> Num(match_id), game_event_id |-> e.gameEventId] >>
      [] t = 3 -> IF IsNone(e.possessionEventId) THEN <<>>
                  ELSE << [match_id |-> Num(match_id),
                           possession_event_id |-> e.possessionEventId,
                           possession_event_type |-> e.possessionEventType] >>
      [] t = 4 -> IF IsNone(e.possessionEventId) \/ e.possessionEventType \notin {"PA", "CR"}
                  THEN <<>>
                  ELSE << [match_id |-> Num(match_id),
                           possession_event_id |-> e.possessionEventId,
                           pass_type |-> e.gameEventId] >>
      [] OTHER -> IF IsNone(e.possessionEventId) \/ e.possessionEventType # "SH"
                  THEN <<>>
                  ELSE << [match_id |-> Num(match_id),
                           possession_event_id |-> e.possessionEventId,
                           shot_type |-> e.gameEventId] >>

RECURSIVE EvList(_, _, _)
EvList(events, match_id, t) ==
    IF events = <<>> THEN <<>>
    ELSE EvRowsOf(Head(events), match_id, t) \o EvList(Tail(events), match_id, t)

chunks_overlapping(lst, n) ==
    [i \in 1..((Len(lst) + n - 1) \div n) |->
        SubSeq(lst, Min((i - 1) * (n - 1) + 1, Len(lst)),
               Min((i - 1) * (n - 1) + n, Len(lst)))]

\* for i in range(0, len(lst), n): yield lst[i:i + n]
chunks(lst, n) ==
    [i \in 1..((Len(lst) + n - 1) \div n) |->
        SubSeq(lst, (i - 1) * n + 1, Min(i * n, Len(lst)))]

EvIdle ==
    [at |-> "file", events |-> <<>>, raw |-> <<>>, lists |-> <<>>, tbl |-> 0, c |-> 0,
     calls |-> <<>>]

\* the loop over the events of the file and the five dedup_by_key calls
EvReadFile ==
    /\ dd.at = "file"
    /\ LET raw == [t \in 1..5 |-> EvList(dd.events, 1, t)]
       IN  dd' = [dd EXCEPT
                    !.at = "upsert", !.raw = raw, !.tbl = 1, !.c = 0,
                    !.lists = [t \in 1..5 |->
                                 dedup_by_key(raw[t],
                                     [r \in Range(raw[t]) |-> KeyOf(r, EvKey(t))])]]
    /\ UNCHANGED pipe_vars

\* supabase.table(...).upsert(b).execute() for the next chunk of the table
EvUpsertChunk ==
    /\ dd.at = "upsert"
    /\ dd.tbl <= 5
    /\ dd.c < Len(chunks(dd.lists[dd.tbl], EvChunk))
    /\ dd' = [dd EXCEPT
                !.c = @ + 1,
                !.calls = Append(@, [table |-> EvTables[dd.tbl],
                                     rows |-> chunks(dd.lists[dd.tbl], EvChunk)[dd.c + 1]])]
    /\ UNCHANGED pipe_vars

\* the loop over the chunks of a table ends: the next table, or the totals
EvNextTable ==
    /\ dd.at = "upsert"
    /\ dd.tbl <= 5
    /\ dd.c = Len(chunks(dd.lists[dd.tbl], EvChunk))
    /\ dd' = [dd EXCEPT !.tbl = @ + 1, !.c = 0,
                        !.at = IF dd.tbl = 5 THEN "done" ELSE "upsert"]
    /\ UNCHANGED pipe_vars

InitEvents ==
    /\ \E a \in ArgsOf("smoothballs") :
          /\ ~a.dry_run /\ ~a.verify
          /\ PipeInit([objs |-> {}, max_recs |-> 0, max_files |-> 0, errors |-> {},
                       max_faults |-> 0, bad_lines |-> FALSE, in_order |-> FALSE], a)
    /\ \E events \in SeqsUpTo(Events, EvMaxEvents) : dd = [EvIdle EXCEPT !.events = events]

NextEvents ==
    \/ EvReadFile
    \/ EvUpsertChunk
    \/ EvNextTable

SpecEvents == InitEvents /\ [][NextEvents]_vars

RECURSIVE Concat(_)
Concat(seqs) == IF seqs = <<>> THEN <<>> ELSE Head(seqs) \o Concat(Tail(seqs))

\* the rows of the calls made for table t, one call after the other
EvSent(t) ==
    LET made == SelectSeq(dd.calls, LAMBDA call : call.table = EvTables[t])
    IN  Concat([i \in DOMAIN made |-> made[i].rows])

\* C24: for each of the five tables of the events loader, every call made
\* for the file carries between one and EvChunk rows, no key occurs twice
\* among the rows of all the calls for the table, and once the table's loop
\* has ended the rows of its calls, one call after the other, are the
\* deduplicated list: one row per key of the rows built from the file, the
\* last one built.
C24_ChunkedCallsCarryDedupedList ==
    dd.at \in {"upsert", "done"} =>
        /\ \A i \in DOMAIN dd.calls :
              Len(dd.calls[i].rows) \in 1..EvChunk
        /\ \A t \in 1..5 :
              LET sent == EvSent(t)
              IN  /\ ~HasDuplicateKey(sent, EvKey(t))
                  /\ (dd.tbl > t) =>
                        /\ sent = dd.lists[t]
                        /\ OneRowPerKeyLastWins(dd.raw[t], EvKey(t), sent)

\* a file of three events with three game event ids and one possession event
\* id twice: the timeline went out in two calls, the possession list shrank
C24_Witness ==
    /\ dd.at = "done"
    /\ Len(SelectSeq(dd.calls, LAMBDA call : call.table = "event_timeline")) = 2
    /\ Len(dd.raw[3]) = 3
    /\ Len(dd.lists[3]) = 2
    /\ Len(EvSent(3)) = 2

-----------------------------------------------------------------------------
(* load_smoothballs_10fps.py with --max-games and --only-game               *)

MaxGamesValues == {Null, Num(0), Num(1), Num(2)}
OnlyGameValues == {Null, Num(1)}

InitLimits ==
    /\ \E a \in ArgsOf("smoothballs") :
       \E n \in MaxGamesValues : \E only \in OnlyGameValues :
          /\ ~a.dry_run /\ ~a.verify
          /\ PipeInit([objs |-> ObjsOf("smoothballs", {Num(0), Num(100)}, {Num(1)},
                                       {NoItems}),
                       max_recs |-> MaxRecs, max_files |-> MaxFiles,
                       errors |-> {}, max_faults |-> 0, bad_lines |-> FALSE,
                       in_order |-> FALSE],
                      [a EXCEPT !.max_games = n, !.only_game = only])
    /\ dd = DdIdle

\* the files of the list: named 1 or 2, or with a name that gives no game id
NextLimits ==
    \/ \E g \in {Null, Num(1), Num(2)} : NextFile(g)
    \/ AllDone
    \/ \E obj \in input.objs : ReadRecord(obj)
    \/ EndOfFile
    \/ FlushTable
    \/ FlushClear
    \/ StoreCallReturns
    \/ FileCounted

SpecLimits == InitLimits /\ [][NextLimits]_vars

\* a file is being processed: read, flushed or counted
InFile == pc \in {"read", "flush", "upsert", "recreate", "sleep", "verify", "counted"}

\* C25: with --max-games N, for every integer N the option accepts, at most N
\* files are processed: no more than N are ever completed, and none is being
\* processed once N are; with --only-game G, every file that is processed has
\* the game id G.
C25_AtMostMaxGamesFiles ==
    /\ (~IsNone(args.max_games)) =>
          /\ games_done <= Val(args.max_games)
          /\ InFile => games_done < Val(args.max_games)
    /\ (~IsNone(args.only_game) /\ InFile) => Num(game_id) = args.only_game

-----------------------------------------------------------------------------
(* The last-kept timestamp and the records that yield no frame row          *)

\* C26 as stated: whenever last_keep_ms is set, a frame row was appended in
\* this file and last_keep_ms is the timestamp of the most recent record for
\* which one was appended, so a record that yields no frame row does not
\* advance it.
C26_LastKeepIsLastAppended ==
    (pc \in {"read", "flush", "upsert"} /\ IsNum(last_keep_ms)) =>
        /\ hist.app_ts # <<>>
        /\ last_keep_ms = Last(hist.app_ts)

\* C26: last_keep_ms is set exactly when a record of the file has passed the
\* time filter, and it is then the timestamp of the most recent such record,
\* whether or not a frame row was built from it: a record that passes the
\* filter advances last_keep_ms by the step that reads it, and every other
\* record leaves it alone.
C26_LastKeepIsLastPassed ==
    /\ [](pc \in {"read", "flush", "upsert"} =>
            /\ IsNum(last_keep_ms) <=> hist.kept_ts # <<>>
            /\ IsNum(last_keep_ms) => last_keep_ms = Last(hist.kept_ts))
    /\ [][(pc = "read" /\ nread' = nread + 1) =>
            LET t == Last(hist'.seen_ts)
            IN  IF IsNum(t) /\ TimeFilterPasses(last_keep_ms, t, args.min_dt_ms)
                THEN last_keep_ms' = t
                ELSE last_keep_ms' = last_keep_ms]_vars

\* a record at time 0 without frameNum was read, then another at time 0: no
\* frame row was ever appended, last_keep_ms is 0 and the second record was
\* dropped by the time filter
C26_Witness ==
    /\ pc = "read"
    /\ hist.seen_ts = <<Num(0), Num(0)>>
    /\ hist.kept_ts = <<Num(0)>>
    /\ hist.app_ts = <<>>
    /\ frames_buf = <<>>
    /\ last_keep_ms = Num(0)

-----------------------------------------------------------------------------
(* The buffers at the head of the read loop, for thresholds of one and more *)

BufMaxRecs == 3
BufMaxBatch == 3

InitBuffers ==
    /\ \E loader \in {"smoothballs", "smoothtracking"} : \E a \in ArgsOf(loader) :
       \E bf \in 1..BufMaxBatch : \E bp \in 1..BufMaxBatch :
          /\ ~a.verify
          /\ PipeInit([objs |-> ObjsOf(loader, {Num(0), Num(100), Num(200)},
                                       {Null, Num(1), Num(2)}, AnyPositions),
                       max_recs |-> BufMaxRecs, max_files |-> 1,
                       errors |-> {}, max_faults |-> 0, bad_lines |-> FALSE,
                       in_order |-> TRUE],
                      [a EXCEPT !.batch_frames = bf, !.batch_players = bp,
                                !.batch_balls = bp])
    /\ dd = DdIdle

SpecBuffers == InitBuffers /\ [][NextDownsample]_vars

\* C27: in load_smoothballs_10fps.py and load_smoothtracking_10fps.py, with
\* thresholds of at least one, whenever the loop is about to read the next
\* record the frame buffer holds fewer rows than --batch-frames and the
\* position buffer fewer than --batch-balls (--batch-players).
C27_BuffersBelowThresholdAtRead ==
    (pc = "read" /\ args.loader \in {"smoothballs", "smoothtracking"}
       /\ FrameThreshold(args) >= 1 /\ PlayerThreshold(args) >= 1
       /\ BallThreshold(args) >= 1) =>
        /\ Len(frames_buf) < FrameThreshold(args)
        /\ args.loader = "smoothballs" => Len(balls_buf) < BallThreshold(args)
        /\ args.loader = "smoothtracking" => Len(players_buf) < PlayerThreshold(args)

\* a flush has been made and the loop is about to read again, each of the
\* two buffers of the loader holding rows and one row below its threshold
C27_Witness ==
    /\ pc = "read"
    /\ store["tracking_frames"] # {}
    /\ frames_buf # <<>>
    /\ Len(frames_buf) = FrameThreshold(args) - 1
    /\ \/ args.loader = "smoothballs" /\ Len(balls_buf) = BallThreshold(args) - 1
                                        /\ balls_buf # <<>>
       \/ args.loader = "smoothtracking" /\ Len(players_buf) = PlayerThreshold(args) - 1
                                           /\ players_buf # <<>>

-----------------------------------------------------------------------------
(* Frames before positions: no stored position row without its frame row    *)

PositionTables == AllTables \ {"tracking_frames"}

\* the two loaders of smoothed positions over records that all carry a time,
\* a frame number and positions, with a store that fails
InitFrames ==
    /\ \E loader \in {"smoothballs", "smoothtracking"} : \E a \in ArgsOf(loader) :
          PipeInit([objs |-> ObjsOf(loader, {Num(0), Num(100)}, {Num(1), Num(2)},
                                    AnyPositions \ {NoItems}),
                    max_recs |-> MaxRecs, max_files |-> MaxFiles,
                    errors |-> PipeErrors, max_faults |-> MaxFaults,
                    bad_lines |-> TRUE, in_order |-> FALSE], a)
    /\ dd = DdIdle

SpecFrames == InitFrames /\ [][Next]_vars

FrameKeysStored == {KeyOf(r, FrameKey) : r \in store["tracking_frames"]}

\* C28: in load_smoothballs_10fps.py and load_smoothtracking_10fps.py a
\* position call of flush() is made only when the frame rows of the same
\* flush are stored, and the rows it carries belong to those frames; so in
\* every state, the states after a propagated error included, each stored
\* position row has a stored tracking_frames row of its (game_id, frame_num).
C28_PositionsHaveTheirFrame ==
    /\ [](args.loader \in {"smoothballs", "smoothtracking"} =>
            \A t \in PositionTables : \A r \in store[t] :
                KeyOf(r, FrameKey) \in FrameKeysStored)
    /\ [][(args.loader \in {"smoothballs", "smoothtracking"}
             /\ pc = "flush" /\ pc' = "upsert" /\ su'.table \in PositionTables) =>
            /\ fstage > 1
            /\ KeysOf(su'.rows, FrameKey) \subseteq KeysOf(frames_buf, FrameKey)
            /\ KeysOf(frames_buf, FrameKey) \subseteq FrameKeysStored]_vars

\* the run ended on a failed position call of a later flush: the frame rows
\* of two frames are stored, the position rows of one of them only
C28_Witness ==
    /\ pc = "raised"
    /\ args.loader \in {"smoothballs", "smoothtracking"}
    /\ su.table \in PositionTables
    /\ Cardinality(FrameKeysStored) = 2
    /\ \E t \in PositionTables :
          /\ store[t] # {}
          /\ Cardinality({KeyOf(r, FrameKey) : r \in store[t]}) = 1

-----------------------------------------------------------------------------
(* safe_upsert when there is nothing to retry                               *)

\* C29: no store call is made for an empty list of rows: flush() passes the
\* table without touching the store, the client or the count of calls; a
\* store call that fails with an error that is not transient, or at the last
\* of the max_retries attempts, makes safe_upsert raise in the same step with
\* the client holder, the count of clients and the store as they were and no
\* sleep; a client is made only for a transient failure before the last
\* attempt; so when the run has ended the clients made are one more than the
\* failures retried.
C29_NothingToRetryLeavesClientAlone ==
    /\ [](InSafeUpsert => su.rows # <<>>)
    /\ [][(pc = "flush" /\ pc' = "flush" /\ fstage' = fstage + 1) =>
            UNCHANGED <<store, sb_ref, clients_made, su, hist>>]_vars
    /\ [][(pc = "upsert" /\ su'.exc # NoErr
             /\ (~is_transient(su'.exc) \/ su.attempt = max_retries - 1)) =>
            /\ pc' = "raised"
            /\ su'.wait = 0
            /\ UNCHANGED <<sb_ref, clients_made, store>>]_vars
    /\ [][clients_made' # clients_made =>
            /\ pc = "recreate"
            /\ is_transient(su.exc)
            /\ su.attempt < max_retries - 1
            /\ clients_made' = clients_made + 1]_vars
    /\ [](pc \in {"raised", "done"} =>
            clients_made = 1 + hist.retried /\ sb_ref = clients_made)

\* the eighth store call of a safe_upsert call failed with a transient error
\* after seven retried failures: eight clients were made in the run, the
\* last of them for the seventh failure and none for the eighth
C29_Witness ==
    /\ pc = "raised"
    /\ su.attempt = max_retries - 1
    /\ is_transient(su.exc)
    /\ hist.retried = max_retries - 1
    /\ clients_made = max_retries
    /\ sb_ref = su.client

====
